---- MODULE Spec2Model ----
(***************************************************************************)
(* Musify (src/app.py): the music recommendation engine                    *)
(* (MusicRecommendationEngine), its HTTP routes, and the live-radio        *)
(* socket handlers, as a state machine.                                    *)
(*                                                                         *)
(* Text is modelled as a sequence of one-character strings, so that the    *)
(* string operations of the feature extractor (split, lower, strip,        *)
(* substring search, the regular-expression split) are computed            *)
(* character by character as the code computes them.                       *)
(*                                                                         *)
(* Real numbers are fixed-point integers: a weight, a reward or a          *)
(* completion ratio w is the integer w * One.  Scores carry two more       *)
(* decimal digits (w * One * Fine) so that the products with 0.3, 0.25,    *)
(* 0.2, 0.15 and the division by 100 of calculate_song_score are exact.    *)
(***************************************************************************)
EXTENDS Integers, Sequences, FiniteSets, TLC

(***************************************************************************)
(* Text helpers (Python str operations)                                    *)
(***************************************************************************)

UpperChars ==
    <<"A","B","C","D","E","F","G","H","I","J","K","L","M","N","O","P","Q","R","S","T","U","V","W","X","Y","Z">>

LowerChars ==
    <<"a","b","c","d","e","f","g","h","i","j","k","l","m","n","o","p","q","r","s","t","u","v","w","x","y","z">>

\* str.lower() on one character
LowerChar(c) ==
    IF \E i \in 1..Len(UpperChars) : UpperChars[i] = c
    THEN LowerChars[CHOOSE i \in 1..Len(UpperChars) : UpperChars[i] = c]
    ELSE c

\* str.lower()
Lower(s) == [i \in 1..Len(s) |-> LowerChar(s[i])]

SetMin(S) == CHOOSE x \in S : \A y \in S : x <= y

SetMax(S) == CHOOSE x \in S : \A y \in S : y <= x

\* str.find(p) + 1: the 1-based index of the first occurrence of p in s, 0 if none
Find(s, p) ==
    LET I == {i \in 1..(Len(s) - Len(p) + 1) : SubSeq(s, i, i + Len(p) - 1) = p}
    IN  IF I = {} THEN 0 ELSE SetMin(I)

\* p in s
Contains(s, p) == Find(s, p) # 0

\* s.split(p, 1) for a p that occurs in s: the text before and after the first p
SplitFirst(s, p) ==
    LET i == Find(s, p)
    IN  << SubSeq(s, 1, i - 1), SubSeq(s, i + Len(p), Len(s)) >>

WhiteSpace == {" ", "\t", "\n", "\r"}

\* str.strip()
Strip(s) ==
    LET I == {i \in 1..Len(s) : s[i] \notin WhiteSpace}
    IN  IF I = {} THEN << >> ELSE SubSeq(s, SetMin(I), SetMax(I))

\* os.path.splitext(p)[0]: p without its extension.  The extension starts
\* at the last dot of the last path component, unless only dots precede it
\* in that component.
SplitExtRoot(p) ==
    LET seps == {i \in 1..Len(p) : p[i] = "/"}
        base == IF seps = {} THEN 1 ELSE SetMax(seps) + 1
        dots == {i \in base..Len(p) : p[i] = "."}
        last == IF dots = {} THEN 0 ELSE SetMax(dots)
    IN  IF last > base /\ \E j \in base..(last - 1) : p[j] # "."
        THEN SubSeq(p, 1, last - 1)
        ELSE p

\* the character class [\s\-_\.\(\)\[\],&] of the keyword split
SplitChars == WhiteSpace \cup {"-", "_", ".", "(", ")", "[", "]", ",", "&"}

\* re.split(r'[\s\-_\.\(\)\[\],&]+', s): the pieces of s between runs of
\* split characters (empty pieces at the two ends included, as re.split
\* returns them); the argument cur is the piece being read.
RECURSIVE ReSplitFrom(_, _, _)
ReSplitFrom(s, i, cur) ==
    IF i > Len(s) THEN << cur >>
    ELSE IF s[i] \in SplitChars
         THEN IF i > 1 /\ s[i - 1] \in SplitChars
              THEN ReSplitFrom(s, i + 1, cur)
              ELSE << cur >> \o ReSplitFrom(s, i + 1, << >>)
         ELSE ReSplitFrom(s, i + 1, Append(cur, s[i]))

ReSplit(s) == ReSplitFrom(s, 1, << >>)

\* the elements of a sequence, as a set
Range(s) == {s[i] : i \in 1..Len(s)}

(***************************************************************************)
(* The track names the operations are called with                          *)
(***************************************************************************)

NightDrive == "DJ Nova - Night Drive"

NightRemix == "Night Remix.mp3"

DriveByNova == "Drive by Nova"

RockRemix == "Rock Remix"

Remix == "Remix"

NovaRemix == "DJ Nova - Remix"

WorkWork == "RiRi - Work Work Work Work Work Work"

\* the characters of each name: a str, as the sequence of its characters
Catalogue ==
    << [name |-> NightDrive,
        chars |-> <<"D","J"," ","N","o","v","a"," ","-"," ","N","i","g","h","t"," ","D","r","i","v","e">>],
       [name |-> NightRemix,
        chars |-> <<"N","i","g","h","t"," ","R","e","m","i","x",".","m","p","3">>],
       [name |-> DriveByNova,
        chars |-> <<"D","r","i","v","e"," ","b","y"," ","N","o","v","a">>],
       [name |-> RockRemix,
        chars |-> <<"R","o","c","k"," ","R","e","m","i","x">>],
       [name |-> Remix,
        chars |-> <<"R","e","m","i","x">>],
       [name |-> NovaRemix,
        chars |-> <<"D","J"," ","N","o","v","a"," ","-"," ","R","e","m","i","x">>],
       [name |-> WorkWork,
        chars |-> <<"R","i","R","i"," ","-"," ","W","o","r","k"," ","W","o","r","k"," ","W","o","r","k"," ","W","o","r","k"," ","W","o","r","k"," ","W","o","r","k">>] >>


(***************************************************************************)
(* Feature extraction: MusicRecommendationEngine._extract_features         *)
(***************************************************************************)

genre_patterns ==
    << [tag |-> <<"e","l","e","c","t","r","o","n","i","c">>, patterns |-> <<
           <<"r","e","m","i","x">>,
           <<"e","d","m">>,
           <<"h","o","u","s","e">>,
           <<"t","e","c","h","n","o">>,
           <<"d","u","b","s","t","e","p">>,
           <<"t","r","a","n","c","e">>,
           <<"b","a","s","s">>,
           <<"d","r","o","p">>,
           <<"b","e","a","t">>
       >>],
       [tag |-> <<"h","i","p","h","o","p">>, patterns |-> <<
           <<"r","a","p">>,
           <<"h","i","p">>,
           <<"h","o","p">>,
           <<"t","r","a","p">>,
           <<"f","l","o","w">>,
           <<"b","a","r","s">>,
           <<"c","y","p","h","e","r">>,
           <<"f","r","e","e","s","t","y","l","e">>
       >>],
       [tag |-> <<"r","o","c","k">>, patterns |-> <<
           <<"r","o","c","k">>,
           <<"m","e","t","a","l">>,
           <<"g","u","i","t","a","r">>,
           <<"p","u","n","k">>,
           <<"g","r","u","n","g","e">>,
           <<"a","l","t","e","r","n","a","t","i","v","e">>
       >>],
       [tag |-> <<"p","o","p">>, patterns |-> <<
           <<"p","o","p">>,
           <<"d","a","n","c","e">>,
           <<"p","a","r","t","y">>,
           <<"c","l","u","b">>,
           <<"h","i","t">>
       >>],
       [tag |-> <<"c","l","a","s","s","i","c","a","l">>, patterns |-> <<
           <<"s","y","m","p","h","o","n","y">>,
           <<"o","r","c","h","e","s","t","r","a">>,
           <<"c","l","a","s","s","i","c","a","l">>,
           <<"p","i","a","n","o">>,
           <<"v","i","o","l","i","n">>,
           <<"o","p","u","s">>
       >>],
       [tag |-> <<"j","a","z","z">>, patterns |-> <<
           <<"j","a","z","z">>,
           <<"b","l","u","e","s">>,
           <<"s","w","i","n","g">>,
           <<"s","o","u","l">>,
           <<"f","u","n","k">>
       >>],
       [tag |-> <<"a","m","b","i","e","n","t">>, patterns |-> <<
           <<"a","m","b","i","e","n","t">>,
           <<"c","h","i","l","l">>,
           <<"r","e","l","a","x">>,
           <<"c","a","l","m">>,
           <<"p","e","a","c","e","f","u","l">>,
           <<"m","e","d","i","t","a","t","i","o","n">>,
           <<"s","l","e","e","p">>
       >>],
       [tag |-> <<"i","n","d","i","a","n">>, patterns |-> <<
           <<"b","o","l","l","y","w","o","o","d">>,
           <<"h","i","n","d","i">>,
           <<"p","u","n","j","a","b","i">>,
           <<"d","e","s","i">>,
           <<"b","h","a","n","g","r","a">>,
           <<"i","n","d","i","a","n">>
       >>],
       [tag |-> <<"l","o","f","i">>, patterns |-> <<
           <<"l","o","f","i">>,
           <<"l","o","-","f","i">>,
           <<"s","t","u","d","y">>,
           <<"b","e","a","t","s">>,
           <<"a","e","s","t","h","e","t","i","c">>
       >>],
       [tag |-> <<"a","c","o","u","s","t","i","c">>, patterns |-> <<
           <<"a","c","o","u","s","t","i","c">>,
           <<"u","n","p","l","u","g","g","e","d">>,
           <<"l","i","v","e">>,
           <<"c","o","v","e","r">>
       >>] >>

mood_patterns ==
    << [tag |-> <<"e","n","e","r","g","e","t","i","c">>, patterns |-> <<
           <<"e","n","e","r","g","y">>,
           <<"h","y","p","e">>,
           <<"f","i","r","e">>,
           <<"l","i","t">>,
           <<"p","a","r","t","y">>,
           <<"d","a","n","c","e">>,
           <<"f","a","s","t">>,
           <<"p","o","w","e","r">>
       >>],
       [tag |-> <<"s","a","d">>, patterns |-> <<
           <<"s","a","d">>,
           <<"c","r","y">>,
           <<"t","e","a","r","s">>,
           <<"a","l","o","n","e">>,
           <<"l","o","n","e","l","y">>,
           <<"h","e","a","r","t","b","r","e","a","k">>,
           <<"b","r","o","k","e","n">>,
           <<"m","i","s","s">>
       >>],
       [tag |-> <<"h","a","p","p","y">>, patterns |-> <<
           <<"h","a","p","p","y">>,
           <<"j","o","y">>,
           <<"s","m","i","l","e">>,
           <<"l","o","v","e">>,
           <<"s","u","n","s","h","i","n","e">>,
           <<"g","o","o","d">>,
           <<"b","e","s","t">>
       >>],
       [tag |-> <<"r","o","m","a","n","t","i","c">>, patterns |-> <<
           <<"l","o","v","e">>,
           <<"r","o","m","a","n","c","e">>,
           <<"h","e","a","r","t">>,
           <<"k","i","s","s">>,
           <<"f","o","r","e","v","e","r">>,
           <<"b","a","b","y">>,
           <<"d","a","r","l","i","n","g">>
       >>],
       [tag |-> <<"m","o","t","i","v","a","t","i","o","n","a","l">>, patterns |-> <<
           <<"m","o","t","i","v","a","t","i","o","n">>,
           <<"i","n","s","p","i","r","e">>,
           <<"d","r","e","a","m">>,
           <<"r","i","s","e">>,
           <<"s","u","c","c","e","s","s">>,
           <<"c","h","a","m","p","i","o","n">>,
           <<"w","i","n">>
       >>] >>

\* Python's None for an optional str, and a str that is present
NoText == [isNone |-> TRUE, text |-> << >>]

SomeText(s) == [isNone |-> FALSE, text |-> s]

DashSep == << " ", "-", " " >>

BySep == << " ", "b", "y", " " >>

\* for tag, patterns in table.items(): the tags with some pattern in name_lower
TagsOf(table, name_lower) ==
    LET matches(e) == \E k \in 1..Len(e.patterns) : Contains(name_lower, e.patterns[k])
        hits == SelectSeq(table, matches)
    IN  [i \in 1..Len(hits) |-> hits[i].tag]

\* keywords: the pieces of name_lower of 3 or more characters
KeywordsOf(name_lower) ==
    LET long(w) == Len(Strip(w)) >= 3
        words == SelectSeq(ReSplit(name_lower), long)
    IN  [i \in 1..Len(words) |-> Strip(words[i])]

\* the artist and the text analysed for keywords, genres and moods
ArtistSplit(name) ==
    IF Contains(name, DashSep)
    THEN LET parts == SplitFirst(name, DashSep)
         IN  [artist |-> SomeText(Strip(parts[1])), name_lower |-> Lower(parts[2])]
    ELSE IF Contains(Lower(name), BySep)
         THEN LET parts == SplitFirst(Lower(name), BySep)
              IN  [artist |-> SomeText(Strip(parts[2])), name_lower |-> Lower(name)]
         ELSE [artist |-> NoText, name_lower |-> Lower(name)]

\* the characters of a name of the catalogue
Chars(song_name) ==
    Catalogue[CHOOSE i \in 1..Len(Catalogue) : Catalogue[i].name = song_name].chars

extract_features(song_name) ==
    LET name == SplitExtRoot(Chars(song_name))
        sp   == ArtistSplit(name)
    IN  [ keywords        |-> KeywordsOf(sp.name_lower),
          artist          |-> sp.artist,
          potential_genre |-> TagsOf(genre_patterns, sp.name_lower),
          mood_hints      |-> TagsOf(mood_patterns, sp.name_lower),
          language_hints  |-> << >> ]

\* a text as one string: the form in which the model's state holds names,
\* keywords, artists and tags
RECURSIVE Str(_)
Str(cs) == IF Len(cs) = 0 THEN "" ELSE Head(cs) \o Str(Tail(cs))

\* [str(x) for x in texts]
Strs(texts) == [i \in 1..Len(texts) |-> Str(texts[i])]

\* the features dict as the model's state holds it
Snapshot(features) ==
    [ keywords        |-> Strs(features.keywords),
      artist          |-> [isNone |-> features.artist.isNone, text |-> Str(features.artist.text)],
      potential_genre |-> Strs(features.potential_genre),
      mood_hints      |-> Strs(features.mood_hints),
      language_hints  |-> Strs(features.language_hints) ]

\* truthiness of an optional str: None and '' are both false
Truthy(a) == ~a.isNone /\ a.text # ""

\* For a name of the model: its features (_extract_features) and
\* features['artist'].lower()
CacheEntry(song_name) ==
    LET features == extract_features(song_name)
    IN  [ features     |-> Snapshot(features),
          artist_lower |-> Str(Lower(features.artist.text)) ]

\* the names of the catalogue
AllNames == {Catalogue[i].name : i \in 1..Len(Catalogue)}

VARIABLES
    data,   \* recommendation_engine.data, the model in memory
    file,   \* the contents of PREFERENCES_FILE
    now,    \* the clock: datetime.now() of the next request
    ret,    \* the last request and its response
    memo,   \* CacheEntry of each name of the catalogue: _extract_features is
            \* a pure function, computed once per name and then looked up
    plan,   \* the locals of a get_smart_shuffle_order call in progress
    conc,   \* the request each server thread is handling, and its locals
    radio,  \* radio_state: is_live, host_sid and listeners
    sockets \* the Socket.IO server: the connected sids, and the sids in the
            \* room 'radio_listeners'

\* self._extract_features(song_name)
FeaturesOf(song_name) == memo[song_name].features

\* features['artist'].lower()
ArtistOf(song_name) == memo[song_name].artist_lower

(***************************************************************************)
(* Numbers                                                                 *)
(***************************************************************************)

\* the fixed-point image of 1.0 (weights, rewards, completion ratios)
One == 10000

\* scores are kept in units of 1 / (One * Fine)
Fine == 100

Min(a, b) == IF a <= b THEN a ELSE b

Max(a, b) == IF a >= b THEN a ELSE b

\* the product of two fixed-point numbers
FMul(a, b) == (a * b) \div One

\* min(1, w): the clamp of a weight without its floor
ClampAbove(w) == Min(One, w)

\* max(0, min(1, w))
Clamp(w) == Max(0, Min(One, w))

(***************************************************************************)
(* Python dicts: the items in insertion order, as records [k, v]           *)
(***************************************************************************)

Has(d, k) == \E i \in 1..Len(d) : d[i].k = k

Get(d, k) == d[CHOOSE i \in 1..Len(d) : d[i].k = k].v

\* d[k] = v: an existing key keeps its place, a new key goes last
Put(d, k, v) ==
    IF Has(d, k)
    THEN [d EXCEPT ![CHOOSE i \in 1..Len(d) : d[i].k = k] = [k |-> k, v |-> v]]
    ELSE Append(d, [k |-> k, v |-> v])

(***************************************************************************)
(* The preference model (self.data) and the preferences file               *)
(***************************************************************************)

\* None for a timestamp; timestamps are the values of the clock `now`
NoTime == -1

\* str(h) for the hours of the day
HourNames ==
    << "0", "1", "2", "3", "4", "5", "6", "7", "8", "9", "10", "11", "12",
       "13", "14", "15", "16", "17", "18", "19", "20", "21", "22", "23" >>

HourStr(h) == HourNames[h + 1]

\* the default structure of _load_preferences, and of reset_preferences
DefaultData ==
    [ song_stats       |-> << >>,
      keyword_scores   |-> << >>,
      artist_scores    |-> << >>,
      time_preferences |-> [h \in Range(HourNames) |-> << >>],
      genre_hints      |-> << >>,
      total_plays      |-> 0,
      total_skips      |-> 0,
      learning_rate    |-> One \div 10,
      last_updated     |-> NoTime ]

\* the contents of the preferences file
AbsentFile == [kind |-> "absent"]

\* a file that open(..., 'w') truncated and json.dump did not finish
PartialFile == [kind |-> "partial"]

\* json.dump(self.data, f, indent=2): the whole model as one JSON object
Document(d) == [kind |-> "object", value |-> d]

\* the ways _save_preferences can end: written; open() raised; json.dump raised
SaveOutcomes == {"written", "open_failed", "dump_failed"}

\* a save that dumps the model before it stamps last_updated
save_preferences_unstamped(d, f, t, outcome) ==
    [ data |-> [d EXCEPT !.last_updated = t],
      file |-> CASE outcome = "written"     -> Document(d)
                 [] outcome = "open_failed" -> f
                 [] outcome = "dump_failed" -> PartialFile ]

\* a save that, when the write fails, puts the model back to what the file holds
save_preferences_reverting(d, f, t, outcome) ==
    IF outcome = "written"
    THEN [data |-> [d EXCEPT !.last_updated = t], file |-> Document([d EXCEPT !.last_updated = t])]
    ELSE [data |-> IF f.kind = "object" THEN f.value ELSE DefaultData, file |-> f]

\* _save_preferences: the model and the file after it
save_preferences(d, f, t, outcome) ==
    LET stamped == [d EXCEPT !.last_updated = t]
    IN  [ data |-> stamped,
          file |-> CASE outcome = "written"     -> Document(stamped)
                     [] outcome = "open_failed" -> f
                     [] outcome = "dump_failed" -> PartialFile ]

\* the keys of the default structure, in its order, each with its characters
DefaultKeys ==
    << [key |-> "song_stats",
        chars |-> <<"s","o","n","g","_","s","t","a","t","s">>],
       [key |-> "keyword_scores",
        chars |-> <<"k","e","y","w","o","r","d","_","s","c","o","r","e","s">>],
       [key |-> "artist_scores",
        chars |-> <<"a","r","t","i","s","t","_","s","c","o","r","e","s">>],
       [key |-> "time_preferences",
        chars |-> <<"t","i","m","e","_","p","r","e","f","e","r","e","n","c","e","s">>],
       [key |-> "genre_hints",
        chars |-> <<"g","e","n","r","e","_","h","i","n","t","s">>],
       [key |-> "total_plays",
        chars |-> <<"t","o","t","a","l","_","p","l","a","y","s">>],
       [key |-> "total_skips",
        chars |-> <<"t","o","t","a","l","_","s","k","i","p","s">>],
       [key |-> "learning_rate",
        chars |-> <<"l","e","a","r","n","i","n","g","_","r","a","t","e">>],
       [key |-> "last_updated",
        chars |-> <<"l","a","s","t","_","u","p","d","a","t","e","d">>] >>

\* a file that exists and that open() cannot read
UnreadableFile == [kind |-> "unreadable"]

\* files that hold a JSON value that is not an object: null, a number, a
\* boolean, an array of strings, a string (as its characters)
NullFile == [kind |-> "null"]

NumberFile == [kind |-> "number", value |-> 5]

BooleanFile == [kind |-> "boolean", value |-> TRUE]

ArrayFile(items) == [kind |-> "array", value |-> items]

StringFile(chars) == [kind |-> "string", value |-> chars]

\* self.data when _load_preferences returned a value that is no dict
NotADict(f) == [loaded |-> f.kind, value |-> f.value]

\* a load that lets the default win over the document's value
load_preferences_defaulting(f) ==
    IF f.kind = "object"
    THEN [key \in DOMAIN DefaultData \cup DOMAIN f.value |->
             IF key \in DOMAIN DefaultData THEN DefaultData[key] ELSE f.value[key]]
    ELSE DefaultData

\* _load_preferences: the model a file loads to.  An absent file loads to
\* the default structure, and so does a file for which open, json.load or
\* the merge loop raises.  The merge loop (79-81) gives the loaded value
\* each default key that is not `in` it: a JSON object is completed with
\* the defaults it lacks; for null, a number or a boolean the test raises;
\* for an array or a string the test is a membership or substring test,
\* the assignment raises when a key is not in it, and when every key is in
\* it the loop assigns nothing and the value itself is returned.
load_preferences(f) ==
    CASE f.kind = "object" ->
            [key \in DOMAIN DefaultData \cup DOMAIN f.value |->
                IF key \in DOMAIN f.value THEN f.value[key] ELSE DefaultData[key]]
      [] f.kind = "array" ->
            IF \A i \in 1..Len(DefaultKeys) : DefaultKeys[i].key \in Range(f.value)
            THEN NotADict(f)
            ELSE DefaultData
      [] f.kind = "string" ->
            IF \A i \in 1..Len(DefaultKeys) : Contains(f.value, DefaultKeys[i].chars)
            THEN NotADict(f)
            ELSE DefaultData
      [] OTHER -> DefaultData

(***************************************************************************)
(* Learning: MusicRecommendationEngine.record_play                         *)
(***************************************************************************)

\* the song_stats entry of a song on its first play
NewStats(features, t) ==
    [ play_count       |-> 0,
      skip_count       |-> 0,
      total_completion |-> 0,
      features         |-> features,
      first_played     |-> t,
      last_played      |-> NoTime ]

\* A played duration as the request carries it, a JSON number: a whole
\* number of seconds, or the largest double below one (n >= 1)
Whole(n) == [seconds |-> n, short |-> FALSE]

JustBelow(n) == [seconds |-> n, short |-> TRUE]

\* the largest power of two that is at most n (n >= 1)
RECURSIVE PowerBelow(_)
PowerBelow(n) == IF n < 2 THEN 1 ELSE 2 * PowerBelow(n \div 2)

\* For the largest double below n, divided by n: the quotient, rounded to
\* the nearest double, is 1 - j * 2^-53 with j = 1 or j = 2.  2^-53 is the
\* distance of the doubles below 1.
UlpsBelowOne(n) ==
    IF n = PowerBelow(n) \/ 4 * PowerBelow(n) < 3 * n THEN 1 ELSE 2

\* a completion ratio that is not held at 1.0
CompletionOfUncapped(completed, played, total_duration) ==
    IF total_duration > 0
    THEN [value |-> (played.seconds * One) \div total_duration, below |-> 0]
    ELSE [value |-> IF completed THEN One ELSE One \div 2, below |-> 0]

\* lines 187-190, the completion ratio of a play that was not skipped: its
\* value in units of 1 / One, rounded down, and for a quotient one or two
\* doubles below 1.0 their number (else 0)
CompletionOf(completed, played, total_duration) ==
    IF total_duration > 0
    THEN IF played.seconds > total_duration
            \/ (played.seconds = total_duration /\ ~played.short)
         THEN [value |-> One, below |-> 0]
         ELSE IF played.seconds = total_duration
         THEN [value |-> One - 1, below |-> UlpsBelowOne(total_duration)]
         ELSE [value |-> (played.seconds * One - (IF played.short THEN 1 ELSE 0))
                            \div total_duration,
               below |-> 0]
    ELSE [value |-> IF completed THEN One ELSE One \div 2, below |-> 0]

SkipReward == 0 - (3 * One) \div 10

\* lines 181-192.  completion * 0.5 + 0.5 for a completion of 1 - 2^-53 is
\* 1 - 2^-54, half way between two doubles, and is rounded to the even one,
\* 1.0; for 1 - 2^-52 it is the double 1 - 2^-53.
RewardOf(completed, played, total_duration, skipped) ==
    IF skipped
    THEN SkipReward
    ELSE LET completion == CompletionOf(completed, played, total_duration)
         IN  IF completed
             THEN IF completion.below = 1
                  THEN One
                  ELSE completion.value \div 2 + One \div 2
             ELSE completion.value \div 2

\* the completion ratio and the reward for durations in whole seconds
Completion(completed, duration_played, total_duration) ==
    CompletionOf(completed, Whole(duration_played), total_duration).value

Reward(completed, duration_played, total_duration, skipped) ==
    RewardOf(completed, Whole(duration_played), total_duration, skipped)

\* a pass that seeds a new key at 0 instead of 0.5
ReinforceFromZero(scores, key, step) ==
    LET seeded == IF Has(scores, key) THEN scores ELSE Put(scores, key, 0)
        added  == Put(seeded, key, Get(seeded, key) + step)
    IN  Put(added, key, Clamp(Get(added, key)))

\* one pass of a score loop: seed at 0.5, add the step, clamp
Reinforce(scores, key, step) ==
    LET seeded == IF Has(scores, key) THEN scores ELSE Put(scores, key, One \div 2)
        added  == Put(seeded, key, Get(seeded, key) + step)
    IN  Put(added, key, Clamp(Get(added, key)))

\* for key in keys: Reinforce
RECURSIVE ReinforceAll(_, _, _)
ReinforceAll(scores, keys, step) ==
    IF keys = << >> THEN scores
    ELSE ReinforceAll(Reinforce(scores, Head(keys), step), Tail(keys), step)

\* one pass of the time-preference loop
CountKeyword(prefs, keyword) ==
    LET seeded == IF Has(prefs, keyword) THEN prefs ELSE Put(prefs, keyword, 0)
    IN  Put(seeded, keyword, Get(seeded, keyword) + 1)

RECURSIVE CountAll(_, _)
CountAll(prefs, keywords) ==
    IF keywords = << >> THEN prefs
    ELSE CountAll(CountKeyword(prefs, Head(keywords)), Tail(keywords))

\* all the keywords, not the first five
EveryKeyword(keywords) == keywords

\* keywords[:5]
FirstFive(keywords) == SubSeq(keywords, 1, Min(5, Len(keywords)))

\* statistics that add the completion ratio of a skipped play as well
UpdateStatsCompleting(d, song_name, features, completed, duration_played, total_duration, skipped, t) ==
    LET key     == song_name
        created == IF Has(d.song_stats, key)
                   THEN d.song_stats
                   ELSE Put(d.song_stats, key, NewStats(features, t))
        stats   == Get(created, key)
        played  == [stats EXCEPT !.play_count = @ + 1, !.last_played = t,
                                 !.total_completion =
                                    @ + Completion(completed, duration_played, total_duration)]
        counted == IF skipped THEN [played EXCEPT !.skip_count = @ + 1] ELSE played
    IN  [d EXCEPT !.song_stats  = Put(created, key, counted),
                  !.total_plays = @ + 1,
                  !.total_skips = IF skipped THEN @ + 1 ELSE @]

\* statistics that begin anew at every event of the song
UpdateStatsRenewing(d, song_name, features, completed, duration_played, total_duration, skipped, t) ==
    LET key     == song_name
        created == Put(d.song_stats, key, NewStats(features, t))
        stats   == Get(created, key)
        played  == [stats EXCEPT !.play_count = @ + 1, !.last_played = t]
        counted == IF skipped
                   THEN [played EXCEPT !.skip_count = @ + 1]
                   ELSE [played EXCEPT !.total_completion =
                            @ + Completion(completed, duration_played, total_duration)]
    IN  [d EXCEPT !.song_stats  = Put(created, key, counted),
                  !.total_plays = @ + 1,
                  !.total_skips = IF skipped THEN @ + 1 ELSE @]

\* lines 165-192: the song's statistics and the counters
UpdateStats(d, song_name, features, completed, duration_played, total_duration, skipped, t) ==
    LET key     == song_name
        created == IF Has(d.song_stats, key)
                   THEN d.song_stats
                   ELSE Put(d.song_stats, key, NewStats(features, t))
        stats   == Get(created, key)
        played  == [stats EXCEPT !.play_count = @ + 1, !.last_played = t]
        counted == IF skipped
                   THEN [played EXCEPT !.skip_count = @ + 1]
                   ELSE [played EXCEPT !.total_completion =
                            @ + Completion(completed, duration_played, total_duration)]
    IN  [d EXCEPT !.song_stats  = Put(created, key, counted),
                  !.total_plays = @ + 1,
                  !.total_skips = IF skipped THEN @ + 1 ELSE @]

\* lines 194-221: the learned scores and the time preferences
UpdateScores(d, song_name, features, reward, current_hour) ==
    LET lr == d.learning_rate
    IN  [d EXCEPT
           !.keyword_scores = ReinforceAll(@, features.keywords, FMul(lr, reward - One \div 2)),
           !.artist_scores  = IF Truthy(features.artist)
                              THEN Reinforce(@, ArtistOf(song_name),
                                             FMul(lr, reward - (3 * One) \div 10))
                              ELSE @,
           !.genre_hints    = ReinforceAll(@, features.potential_genre, FMul(lr, reward - One \div 2)),
           !.time_preferences[current_hour] = CountAll(@, FirstFive(features.keywords))]

\* record_play up to its save: the model after it and the reward it returns
record_play(d, song_name, completed, duration_played, total_duration, skipped, hour, t) ==
    LET features == FeaturesOf(song_name)
        reward   == Reward(completed, duration_played, total_duration, skipped)
        counted  == UpdateStats(d, song_name, features, completed, duration_played,
                                total_duration, skipped, t)
    IN  [ data   |-> UpdateScores(counted, song_name, features, reward, HourStr(hour)),
          reward |-> reward ]

\* a reset that clears what was learned and keeps the statistics and counters
reset_preferences_keeping(d, f, t, outcome) ==
    save_preferences([DefaultData EXCEPT !.song_stats  = d.song_stats,
                                         !.total_plays = d.total_plays,
                                         !.total_skips = d.total_skips],
                     f, t, outcome)

\* a reset that keeps the two counters
reset_preferences_counting(d, f, t, outcome) ==
    save_preferences([DefaultData EXCEPT !.total_plays = d.total_plays,
                                         !.total_skips = d.total_skips],
                     f, t, outcome)

\* reset_preferences: a new default structure replaces self.data and is saved
reset_preferences(d, f, t, outcome) == save_preferences(DefaultData, f, t, outcome)

(***************************************************************************)
(* Scoring: MusicRecommendationEngine.calculate_song_score                 *)
(***************************************************************************)

\* 1.0 in score units
Unit == One * Fine

\* math.log(play_count + 1) * 0.05 in score units, for play_count 1..20
LogTable ==
    << 34657, 54931, 69315, 80472, 89588, 97296, 103972, 109861, 115129, 119895,
       124245, 128247, 131953, 135403, 138629, 141661, 144519, 147222, 149787, 152226 >>

\* math.log(play_count + 1) * 0.05; past the table it is above the 0.15 cap
FamiliarityBoost(play_count) ==
    IF play_count <= Len(LogTable) THEN LogTable[play_count] ELSE LogTable[Len(LogTable)]

\* the sum of d[k] over the elements k of keys that d holds
RECURSIVE SumKnown(_, _)
SumKnown(d, keys) ==
    IF keys = << >> THEN 0
    ELSE (IF Has(d, Head(keys)) THEN Get(d, Head(keys)) ELSE 0) + SumKnown(d, Tail(keys))

\* how many elements of keys d holds
RECURSIVE CountKnown(_, _)
CountKnown(d, keys) ==
    IF keys = << >> THEN 0
    ELSE (IF Has(d, Head(keys)) THEN 1 ELSE 0) + CountKnown(d, Tail(keys))

\* lines 234-244: [applies, sub-score, contribution]
KeywordFactor(d, features) ==
    LET keyword_count == CountKnown(d.keyword_scores, features.keywords)
        keyword_score == (SumKnown(d.keyword_scores, features.keywords) * Fine)
                            \div Max(1, keyword_count)
    IN  [ applies |-> keyword_count > 0,
          value   |-> keyword_score,
          add     |-> ((keyword_score - Unit \div 2) * 3) \div 10 ]

\* lines 246-252
ArtistFactor(d, song_name, features) ==
    LET artist  == ArtistOf(song_name)
        applies == Truthy(features.artist) /\ Has(d.artist_scores, artist)
        artist_score == IF applies THEN Get(d.artist_scores, artist) * Fine ELSE 0
    IN  [ applies |-> applies,
          value   |-> artist_score,
          add     |-> ((artist_score - Unit \div 2) * 25) \div 100 ]

\* lines 254-262: the sum over the known genres, divided by the number of tags
GenreFactor(d, features) ==
    LET genre_score == (SumKnown(d.genre_hints, features.potential_genre) * Fine)
                          \div Max(1, Len(features.potential_genre))
    IN  [ applies |-> features.potential_genre # << >>,
          value   |-> genre_score,
          add     |-> ((genre_score - Unit \div 2) * 20) \div 100 ]

\* a time boost without its cap: time_boost / 100
TimeBoostUncapped(d, features, current_hour) ==
    LET time_prefs == IF current_hour \in DOMAIN d.time_preferences
                      THEN d.time_preferences[current_hour]
                      ELSE << >>
    IN  SumKnown(time_prefs, features.keywords) * (Unit \div 100)

\* lines 264-271: min(0.1, time_boost / 100), or nothing
TimeBoost(d, features, current_hour) ==
    LET time_prefs == IF current_hour \in DOMAIN d.time_preferences
                      THEN d.time_preferences[current_hour]
                      ELSE << >>
        time_boost == SumKnown(time_prefs, features.keywords)
    IN  IF time_boost > 0 THEN Min(Unit \div 10, time_boost * (Unit \div 100)) ELSE 0

\* a history factor that adds skip_ratio * 0.2 instead of taking it off
HistoryFactorLikingSkips(d, song_name) ==
    IF ~Has(d.song_stats, song_name)
    THEN [applies |-> FALSE, completion |-> FALSE, value |-> 0, add |-> 0]
    ELSE LET stats      == Get(d.song_stats, song_name)
             play_count == stats.play_count
             skip_ratio == (stats.skip_count * Unit) \div Max(1, play_count)
             familiar   == IF play_count > 0
                           THEN Min((15 * Unit) \div 100, FamiliarityBoost(play_count))
                           ELSE 0
             avg_completion == (stats.total_completion * Fine) \div Max(1, play_count)
             bonus      == IF play_count > 0
                           THEN ((avg_completion - Unit \div 2) * 15) \div 100
                           ELSE 0
         IN  [ applies    |-> TRUE,
               completion |-> play_count > 0,
               value      |-> avg_completion,
               add        |-> familiar + (skip_ratio * 2) \div 10 + bonus ]

\* lines 273-291: the play history of the song
HistoryFactor(d, song_name) ==
    IF ~Has(d.song_stats, song_name)
    THEN [applies |-> FALSE, completion |-> FALSE, value |-> 0, add |-> 0]
    ELSE LET stats      == Get(d.song_stats, song_name)
             play_count == stats.play_count
             skip_ratio == (stats.skip_count * Unit) \div Max(1, play_count)
             familiar   == IF play_count > 0
                           THEN Min((15 * Unit) \div 100, FamiliarityBoost(play_count))
                           ELSE 0
             avg_completion == (stats.total_completion * Fine) \div Max(1, play_count)
             bonus      == IF play_count > 0
                           THEN ((avg_completion - Unit \div 2) * 15) \div 100
                           ELSE 0
         IN  [ applies    |-> TRUE,
               completion |-> play_count > 0,
               value      |-> avg_completion,
               add        |-> familiar - (skip_ratio * 2) \div 10 + bonus ]

\* score_components, in the order the code fills it
Components(kw, ar, ge, hi) ==
    (IF kw.applies THEN << [k |-> "keywords", v |-> kw.value] >> ELSE << >>)
    \o (IF ar.applies THEN << [k |-> "artist", v |-> ar.value] >> ELSE << >>)
    \o (IF ge.applies THEN << [k |-> "genre", v |-> ge.value] >> ELSE << >>)
    \o (IF hi.completion THEN << [k |-> "completion", v |-> hi.value] >> ELSE << >>)

\* lines 226-300: what calculate_song_score computes from the model d
Scored(d, song_name, hour) ==
    LET features == FeaturesOf(song_name)
        kw   == KeywordFactor(d, features)
        ar   == ArtistFactor(d, song_name, features)
        ge   == GenreFactor(d, features)
        tb   == TimeBoost(d, features, HourStr(hour))
        hi   == HistoryFactor(d, song_name)
        raw  == Unit \div 2
                + (IF kw.applies THEN kw.add ELSE 0)
                + (IF ar.applies THEN ar.add ELSE 0)
                + (IF ge.applies THEN ge.add ELSE 0)
                + tb
                + hi.add
    IN  [ score      |-> Max(0, Min(Unit, raw)),
          components |-> Components(kw, ar, ge, hi),
          features   |-> features,
          raw        |-> raw,   \* the score before line 294 clamps it
          time_boost |-> tb ]   \* what lines 264-271 added

\* a scoring that seeds the song's unknown keywords at 0.5, as record_play does
calculate_song_score_seeding(d, song_name, hour) ==
    [ result |-> Scored(d, song_name, hour),
      data   |-> [d EXCEPT !.keyword_scores =
                     ReinforceAll(@, FeaturesOf(song_name).keywords, 0)] ]

\* calculate_song_score: its result, and self.data after the call (the
\* method assigns to nothing that self.data holds)
calculate_song_score(d, song_name, hour) ==
    [ result |-> Scored(d, song_name, hour), data |-> d ]

(***************************************************************************)
(* Summary: MusicRecommendationEngine.get_preference_summary               *)
(***************************************************************************)

\* sorted(items, key=Key, reverse=True): stable, equal keys keep their order
SortedDesc(items, Key(_)) ==
    LET insert(sorted, x) ==
            LET p == Cardinality({i \in 1..Len(sorted) : Key(sorted[i]) >= Key(x)})
            IN  SubSeq(sorted, 1, p) \o << x >> \o SubSeq(sorted, p + 1, Len(sorted))
        upto[i \in 0..Len(items)] ==
            IF i = 0 THEN << >> ELSE insert(upto[i - 1], items[i])
    IN  upto[Len(items)]

\* s[:n]
Take(s, n) == SubSeq(s, 1, Min(n, Len(s)))

\* round(w, 2) of a weight: to the nearest hundredth, a tie to the even one
Round2(w) ==
    LET step == One \div 100
        low  == (w \div step) * step
        rest == w - low
    IN  IF 2 * rest < step THEN low
        ELSE IF 2 * rest > step THEN low + step
        ELSE IF (low \div step) % 2 = 0 THEN low ELSE low + step

\* [{'name': k, 'score': round(s, 2)} for k, s in top if s > floor]
Named(top, floor) ==
    LET above(e) == e.v > floor
        kept == SelectSeq(top, above)
    IN  [i \in 1..Len(kept) |-> [name |-> kept[i].k, score |-> Round2(kept[i].v)]]

get_preference_summary(d) ==
    LET weight(e) == e.v
        plays(e)  == e.v.play_count
        top_artists  == Take(SortedDesc(d.artist_scores, weight), 5)
        top_genres   == Take(SortedDesc(d.genre_hints, weight), 5)
        top_keywords == Take(SortedDesc(d.keyword_scores, weight), 10)
        most_played  == Take(SortedDesc(d.song_stats, plays), 5)
    IN  [ total_plays  |-> d.total_plays,
          total_skips  |-> d.total_skips,
          top_artists  |-> Named(top_artists, (4 * One) \div 10),
          top_genres   |-> Named(top_genres, (4 * One) \div 10),
          top_keywords |-> Named(top_keywords, One \div 2),
          most_played  |-> [i \in 1..Len(most_played) |->
                              [name |-> most_played[i].k, plays |-> most_played[i].v.play_count]],
          learning_progress |-> Min(100, d.total_plays * 2) ]

(***************************************************************************)
(* State                                                                   *)
(***************************************************************************)

vars == << data, file, now, ret, memo, plan, conc, radio, sockets >>

\* a client's session id, and None for host_sid
NoSid == ""

\* radio_state as the module creates it, and as a stop leaves it
RadioOff == [is_live |-> FALSE, host_sid |-> NoSid, listeners |-> 0]

\* no client is connected.  joined is the history the listener count is
\* compared with: the sids whose join_radio was accepted and that have
\* neither sent leave_radio nor disconnected since
NoSockets == [connected |-> {}, room |-> {}, joined |-> {}]

\* no get_smart_shuffle_order call is in progress
NoPlan ==
    [ pc |-> "idle", songs |-> << >>, preferred |-> << >>, others |-> << >>,
      result |-> << >>, pref_idx |-> 0, other_idx |-> 0, passes |-> 0 ]

\* the server's request threads
Threads == {1, 2}

\* a thread that handles no request
IdleThread ==
    [ pc |-> "idle", op |-> "none", song_name |-> "", event |-> << >>, hour |-> 0,
      at |-> NoTime, stats |-> << >>, attached |-> FALSE, stale |-> FALSE,
      i |-> 0, tmp |-> 0, reward |-> 0 ]


(***************************************************************************)
(* Bounds and inputs                                                       *)
(***************************************************************************)

\* requests that change the model, per run
MaxEvents == 2

\* the hours of the day at which requests arrive
HourSamples == {9, 23}

\* the names play events are recorded for
RecordNames == {NightDrive, NightRemix, WorkWork}

\* the names scores are asked for
ScoreNames == {NightDrive, NovaRemix, RockRemix}

\* (completed, duration_played, total_duration, skipped) of a play event
Played     == << TRUE,  180, 180, FALSE >>   \* played to the end
Overplayed == << TRUE,  360, 180, FALSE >>   \* reported longer than the track
HalfPlayed == << FALSE,  90, 180, FALSE >>   \* half played
Untimed    == << FALSE,   0,   0, FALSE >>   \* no duration known, not completed
UntimedEnd == << TRUE,    0,   0, FALSE >>   \* no duration known, completed
Skipped    == << FALSE,  10, 180, TRUE  >>   \* skipped
SkippedEnd == << TRUE,  180, 180, TRUE  >>   \* skipped, yet reported completed

EventSamples == {Played, Overplayed, HalfPlayed, Untimed, UntimedEnd, Skipped, SkippedEnd}

\* the model after one more play event e of song_name at the given hour,
\* recorded and saved at time t
Replayed(d, song_name, e, hour, t) ==
    save_preferences(record_play(d, song_name, e[1], e[2], e[3], e[4], hour, t).data,
                     AbsentFile, t, "written").data

\* the model after n such events, from the default model
RECURSIVE Replay(_, _, _, _, _)
Replay(d, n, song_name, e, hour) ==
    IF n = 0 THEN d
    ELSE Replay(CHOOSE next \in {Replayed(x, song_name, e, hour, 0) : x \in {d}} : TRUE,
                n - 1, song_name, e, hour)

\* The preferences file an engine can find when it starts: none, or the
\* one an earlier run left after 10 complete plays, or after 9 skips, of one song
PriorFiles ==
    { AbsentFile,
      Document(Replay(DefaultData, 10, NovaRemix, Played, 9)),
      Document(Replay(DefaultData, 9, NovaRemix, Skipped, 23)) }

(***************************************************************************)
(* Requests, one at a time                                                 *)
(***************************************************************************)

\* recommendation_engine = MusicRecommendationEngine(PREFERENCES_FILE)
Start(files) ==
    /\ memo = [n \in AllNames |-> CacheEntry(n)]
    /\ file \in files
    /\ data = load_preferences(file)
    /\ now = 1
    /\ ret = [op |-> "start"]
    /\ plan = NoPlan
    /\ conc = [t \in Threads |-> IdleThread]
    /\ radio = RadioOff
    /\ sockets = NoSockets

\* POST /api/recommend/record with a song_name: record_play_event
RecordPlayOf(names, events, hours, outcomes) ==
    /\ now <= MaxEvents
    /\ \E song_name \in names, e \in events, hour \in hours, outcome \in outcomes :
          LET r == record_play(data, song_name, e[1], e[2], e[3], e[4], hour, now)
              s == save_preferences(r.data, file, now, outcome)
          IN  /\ data' = s.data
              /\ file' = s.file
              /\ ret' = [ op |-> "record", status |-> 200, song_name |-> song_name,
                          completed |-> e[1], duration_played |-> e[2],
                          total_duration |-> e[3], skipped |-> e[4], hour |-> hour,
                          reward |-> r.reward, saved |-> outcome, at |-> now ]
    /\ now' = now + 1
    /\ UNCHANGED << memo, plan, conc, radio, sockets >>

\* POST /api/recommend/reset: reset_preferences
ResetOf(outcomes) ==
    /\ now <= MaxEvents
    /\ \E outcome \in outcomes :
          LET s == reset_preferences(data, file, now, outcome)
          IN  /\ data' = s.data
              /\ file' = s.file
              /\ ret' = [op |-> "reset", status |-> 200, saved |-> outcome, at |-> now]
    /\ now' = now + 1
    /\ UNCHANGED << memo, plan, conc, radio, sockets >>

\* GET /api/recommend/score/<song_name>: calculate_song_score
ScoreOf(names, hours) ==
    /\ \E song_name \in names, hour \in hours :
          LET s == calculate_song_score(data, song_name, hour)
          IN  /\ data' = s.data
              /\ ret' = [ op |-> "score", status |-> 200, song_name |-> song_name,
                          hour |-> hour, score |-> s.result.score,
                          components |-> s.result.components,
                          time_boost |-> s.result.time_boost, at |-> now ]
    /\ UNCHANGED << file, now, memo, plan, conc, radio, sockets >>

\* GET /api/recommend/preferences: get_preference_summary
Summary ==
    /\ ret' = [ op |-> "summary", status |-> 200,
                summary |-> get_preference_summary(data), at |-> now ]
    /\ UNCHANGED << data, file, now, memo, plan, conc, radio, sockets >>

(***************************************************************************)
(* Spec: the engine's requests one at a time, every save succeeding        *)
(***************************************************************************)

Init == Start(PriorFiles)

RecordPlay == RecordPlayOf(RecordNames, EventSamples, HourSamples, {"written"})

Reset == ResetOf({"written"})

Score == ScoreOf(ScoreNames, HourSamples)

Next ==
    \/ RecordPlay
    \/ Reset
    \/ Score
    \/ Summary

Spec == Init /\ [][Next]_vars

(***************************************************************************)
(* Properties of Spec                                                      *)
(***************************************************************************)

\* every learned weight of the model d
WeightsOf(d) == d.keyword_scores \o d.artist_scores \o d.genre_hints

\* C1: after any sequence of recorded play events (and resets), every value
\* of keyword_scores, artist_scores and genre_hints lies in [0, 1].
ClampInvariant ==
    \A i \in 1..Len(WeightsOf(data)) :
        WeightsOf(data)[i].v >= 0 /\ WeightsOf(data)[i].v <= One

\* a skip of "Night Remix.mp3" was recorded on a model whose weights for
\* remix and electronic were 0 already: the step alone would take them
\* below 0, and both are 0 after it
ClampReached ==
    /\ ret.op = "record"
    /\ ret.skipped
    /\ ret.song_name = NightRemix
    /\ data.total_plays >= 10
    /\ Get(data.keyword_scores, "remix") = 0
    /\ Get(data.genre_hints, "electronic") = 0
    /\ Get(data.keyword_scores, "night") < One \div 2

\* C5: a score request leaves every field of the model (and the file)
\* unchanged, and the same request made again right after it, at the same
\* hour, computes the same score and the same components.
ScoreIsPureRead ==
    [][ ret'.op = "score" =>
           /\ data' = data
           /\ file' = file
           /\ LET again == calculate_song_score(data', ret'.song_name, ret'.hour)
              IN  /\ again.data = data'
                  /\ again.result.score = ret'.score
                  /\ again.result.components = ret'.components ]_vars

\* a score was returned for a song with a play history, on a model that has
\* learned weights
ScoreReached ==
    /\ ret.op = "score"
    /\ ret.song_name = NightDrive
    /\ Has(data.song_stats, NightDrive)
    /\ Len(ret.components) = 3
    /\ ret.score # Unit \div 2

\* song_stats[song_name] before a record_play: the entry, or the one the
\* call creates
StatsBefore(d, song_name) ==
    IF Has(d.song_stats, song_name)
    THEN Get(d.song_stats, song_name)
    ELSE NewStats(FeaturesOf(song_name), NoTime)

\* C6: a play event recorded with skipped = true leaves the song's
\* total_completion unchanged and adds exactly 1 to its skip_count and to
\* total_skips, whatever completed and the durations are.
SkipCountsOnly ==
    [][ (ret'.op = "record" /\ ret'.skipped) =>
           LET before == StatsBefore(data, ret'.song_name)
               after  == Get(data'.song_stats, ret'.song_name)
           IN  /\ after.total_completion = before.total_completion
               /\ after.skip_count = before.skip_count + 1
               /\ data'.total_skips = data.total_skips + 1 ]_vars

\* a skip reported as completed and fully played was recorded for a song
\* that had been played to the end before
SkipReached ==
    /\ ret.op = "record"
    /\ ret.skipped
    /\ ret.completed
    /\ ret.duration_played = ret.total_duration
    /\ Get(data.song_stats, ret.song_name).play_count = 2
    /\ Get(data.song_stats, ret.song_name).skip_count = 1
    /\ Get(data.song_stats, ret.song_name).total_completion = One

\* what get_preference_summary returns for a model that has learned nothing
EmptySummary ==
    [ total_plays |-> 0, total_skips |-> 0, top_artists |-> << >>,
      top_genres |-> << >>, top_keywords |-> << >>, most_played |-> << >>,
      learning_progress |-> 0 ]

\* C7: the model after a reset is the default model apart from
\* last_updated, and a summary asked for right after a reset has
\* total_plays 0, total_skips 0, learning progress 0 and four empty lists.
ResetForgets ==
    [][ /\ ret'.op = "reset" =>
              data' = [DefaultData EXCEPT !.last_updated = ret'.at]
        /\ (ret.op = "reset" /\ ret'.op = "summary") =>
              ret'.summary = EmptySummary ]_vars

\* a summary was returned right after a reset, the second change of the run
ResetReached ==
    /\ ret.op = "summary"
    /\ file.kind = "object"
    /\ data.last_updated = MaxEvents
    /\ now = MaxEvents + 1
    /\ data.song_stats = << >>
    /\ ret.summary.learning_progress = 0

\* C8: the score returned for a song lies in [0, 1], and the time-of-day
\* boost it includes is at least 0 and at most 0.1.
ScoreInRange ==
    ret.op = "score" =>
        /\ ret.score >= 0
        /\ ret.score <= Unit
        /\ ret.time_boost >= 0
        /\ ret.time_boost <= Unit \div 10

\* a score was returned whose sum, before the clamp of line 294, was above
\* 1, with a time boost held at 0.1 by its cap
ScoreRangeReached ==
    /\ ret.op = "score"
    /\ ret.score = Unit
    /\ Scored(data, ret.song_name, ret.hour).raw > Unit
    /\ ret.time_boost = Unit \div 10
    /\ SumKnown(data.time_preferences[HourStr(ret.hour)],
                FeaturesOf(ret.song_name).keywords) > 10

\* how many times k occurs in keywords
Occurrences(keywords, k) == Cardinality({i \in 1..Len(keywords) : keywords[i] = k})

\* a model that holds no statistics and no weight
Fresh(d) == d.song_stats = << >> /\ WeightsOf(d) = << >> /\ d.total_plays = 0

\* the step records, on a fresh model, a play of an 'Artist - Title' name
\* that was completed, not skipped, and as long as the track
FreshFullPlay ==
    /\ Fresh(data)
    /\ ret'.op = "record"
    /\ ret'.completed
    /\ ~ret'.skipped
    /\ ret'.total_duration > 0
    /\ ret'.duration_played = ret'.total_duration
    /\ Contains(Chars(ret'.song_name), DashSep)
    /\ Truthy(FeaturesOf(ret'.song_name).artist)

\* the reward and the statistics of such a play, and the artist's weight
FreshFullPlayCounts ==
    /\ ret'.reward = One
    /\ Get(data'.song_stats, ret'.song_name).play_count = 1
    /\ Get(data'.song_stats, ret'.song_name).total_completion = One
    /\ Get(data'.artist_scores, ArtistOf(ret'.song_name)) = (57 * One) \div 100

\* C9 as stated: on a fresh model, a completed, unskipped, full-length play
\* of an 'Artist - Title' name returns reward 1.0, creates the statistics
\* with play_count 1 and total_completion 1.0, and leaves every keyword of
\* the title at 0.55 and the lower-cased artist at 0.57.
FreshPlayEveryKeyword ==
    [][ FreshFullPlay =>
           /\ FreshFullPlayCounts
           /\ \A k \in Range(FeaturesOf(ret'.song_name).keywords) :
                  Get(data'.keyword_scores, k) = (55 * One) \div 100 ]_vars

\* C9: on a fresh model, a completed, unskipped, full-length play of an
\* 'Artist - Title' name returns reward 1.0, creates the statistics with
\* play_count 1 and total_completion 1.0, leaves the lower-cased artist at
\* 0.57, and leaves a keyword that occurs n times in the title at
\* min(1, 0.5 + 0.05 n): at 0.55 when it occurs once.
FreshPlayPerOccurrence ==
    [][ FreshFullPlay =>
           /\ FreshFullPlayCounts
           /\ \A k \in Range(FeaturesOf(ret'.song_name).keywords) :
                  Get(data'.keyword_scores, k) =
                     Min(One, One \div 2
                              + Occurrences(FeaturesOf(ret'.song_name).keywords, k)
                                * ((5 * One) \div 100)) ]_vars

\* "DJ Nova - Night Drive" was played to the end on a fresh model: night
\* and drive are at 0.55, dj nova at 0.57
FreshPlayReached ==
    /\ ret.op = "record"
    /\ ret.song_name = NightDrive
    /\ ret.completed /\ ~ret.skipped
    /\ ret.duration_played = 180 /\ ret.total_duration = 180
    /\ ret.reward = One
    /\ data.total_plays = 1
    /\ Get(data.song_stats, NightDrive).play_count = 1
    /\ Get(data.song_stats, NightDrive).total_completion = One
    /\ data.keyword_scores = << [k |-> "night", v |-> (55 * One) \div 100],
                                [k |-> "drive", v |-> (55 * One) \div 100] >>
    /\ data.artist_scores = << [k |-> "dj nova", v |-> (57 * One) \div 100] >>

(***************************************************************************)
(* StoreSpec: the engine's changes one at a time, a save ending in any of  *)
(* the ways it can, and the process starting again on the file it left     *)
(***************************************************************************)

\* the names and events recorded under StoreSpec
StoreNames == {NightDrive, NightRemix}

StoreEvents == {Played, HalfPlayed, Skipped}

StoreInit == Start({AbsentFile})

StoreRecord == RecordPlayOf(StoreNames, StoreEvents, {9}, SaveOutcomes)

StoreReset == ResetOf(SaveOutcomes)

\* the process is started again: the engine is constructed from the file
Restart ==
    /\ ret.op # "start"
    /\ data' = load_preferences(file)
    /\ ret' = [op |-> "start"]
    /\ UNCHANGED << file, now, memo, plan, conc, radio, sockets >>

StoreNext ==
    \/ StoreRecord
    \/ StoreReset
    \/ Restart

StoreSpec == StoreInit /\ [][StoreNext]_vars

\* C10: after a record or a reset whose write succeeded, the preferences
\* file holds the whole model as it is in memory (last_updated included):
\* not a part of it and not an earlier state.
SavedWhole ==
    (ret.op \in {"record", "reset"} /\ ret.saved = "written") =>
        file = Document(data)

\* the second of two recorded plays of different songs was written: the
\* file holds both songs' statistics and the time of this save
SavedWholeReached ==
    /\ ret.op = "record"
    /\ ret.saved = "written"
    /\ ret.at = MaxEvents
    /\ Len(data.song_stats) = 2
    /\ file.kind = "object"
    /\ Len(file.value.song_stats) = 2
    /\ file.value.total_plays = 2
    /\ file.value.last_updated = MaxEvents

(***************************************************************************)
(* Smart shuffle: MusicRecommendationEngine.get_smart_shuffle_order        *)
(***************************************************************************)

\* the most songs the download folder holds
MaxSongs == 6

\* two orders in which os.listdir can list a full download folder
Listings ==
    { << NightDrive, NightRemix, WorkWork, RockRemix, Remix, NovaRemix, DriveByNova >>,
      << DriveByNova, NovaRemix, Remix, RockRemix, WorkWork, NightRemix, NightDrive >> }

\* the hour of the day of the requests of PlanSpec
PlanHours == {9}

\* the lists of songs a shuffle is asked for
SongLists == {Take(l, n) : l \in Listings, n \in 0..MaxSongs}

\* the orders random.shuffle can leave a list in
Shuffles(s) == {[i \in 1..Len(s) |-> s[p[i]]] : p \in Permutations(1..Len(s))}

\* lines 311-322: the songs with their scores, best first
ScoredSongs(d, songs, hour) ==
    LET score(e) == e.score
        scored_songs == [i \in 1..Len(songs) |->
                            [name  |-> songs[i],
                             score |-> calculate_song_score(d, songs[i], hour).result.score]]
    IN  SortedDesc(scored_songs, score)

\* lines 324-327: scored_songs[:max(1, mid)] and scored_songs[mid:]
Halves(scored_songs) ==
    LET mid == Len(scored_songs) \div 2
    IN  [ preferred |-> SubSeq(scored_songs, 1, Max(1, mid)),
          others    |-> SubSeq(scored_songs, mid + 1, Len(scored_songs)) ]

\* the names of a list of scored songs
NamesOf(scored) == [i \in 1..Len(scored) |-> scored[i].name]

\* round(score, 3) of a score
Round3(score) ==
    LET step == Unit \div 1000
        low  == (score \div step) * step
        rest == score - low
    IN  IF 2 * rest < step THEN low
        ELSE IF 2 * rest > step THEN low + step
        ELSE IF (low \div step) % 2 = 0 THEN low ELSE low + step

\* the response of GET /api/recommend/shuffle
ShuffleResponse(songs, shuffle_order, passes) ==
    [ op |-> "shuffle", status |-> 200, songs |-> songs,
      order  |-> NamesOf(shuffle_order),
      scores |-> [i \in 1..Len(shuffle_order) |->
                     [name  |-> shuffle_order[i].name,
                      score |-> Round3(shuffle_order[i].score)]],
      passes |-> passes, at |-> now ]

\* GET /api/recommend/shuffle, up to the interleaving loop: an empty list is
\* answered at once; otherwise the songs are scored, sorted, halved and
\* each half shuffled
PlanBegin ==
    /\ plan.pc = "idle"
    /\ \E songs \in SongLists, hour \in PlanHours :
          IF songs = << >>
          THEN /\ ret' = ShuffleResponse(songs, << >>, 0)
               /\ plan' = plan
          ELSE LET halves == Halves(ScoredSongs(data, songs, hour))
               IN  \E preferred \in Shuffles(halves.preferred),
                      others \in Shuffles(halves.others) :
                      /\ plan' = [ pc |-> "loop", songs |-> songs,
                                   preferred |-> preferred, others |-> others,
                                   result |-> << >>, pref_idx |-> 0,
                                   other_idx |-> 0, passes |-> 0 ]
                      /\ ret' = [op |-> "shuffling"]
    /\ UNCHANGED << data, file, now, memo, conc, radio, sockets >>

\* the condition of the while loop
PlanLoops ==
    plan.pc = "loop"
    /\ (plan.pref_idx < Len(plan.preferred) \/ plan.other_idx < Len(plan.others))

\* a pass whose run of preferred songs can be a single one
PlanPassShortRuns ==
    /\ PlanLoops
    /\ \E pref_count \in {1, 2, 3} :
          LET taken   == Min(pref_count, Len(plan.preferred) - plan.pref_idx)
              pref    == SubSeq(plan.preferred, plan.pref_idx + 1, plan.pref_idx + taken)
              another == plan.other_idx < Len(plan.others)
              other   == IF another THEN << plan.others[plan.other_idx + 1] >> ELSE << >>
          IN  plan' = [plan EXCEPT !.result    = @ \o pref \o other,
                                   !.pref_idx  = @ + taken,
                                   !.other_idx = IF another THEN @ + 1 ELSE @,
                                   !.passes    = @ + 1]
    /\ UNCHANGED << data, file, now, ret, memo, conc, radio, sockets >>

\* a loop that goes on while the preferred songs are not all placed, and
\* takes no other song once they are
PlanPassPreferredOnly ==
    /\ plan.pc = "loop"
    /\ plan.pref_idx < Len(plan.preferred) \/ plan.other_idx < Len(plan.others)
    /\ plan.passes <= 2 * MaxSongs + 2
    /\ \E pref_count \in {2, 3} :
          LET taken   == Min(pref_count, Len(plan.preferred) - plan.pref_idx)
              pref    == SubSeq(plan.preferred, plan.pref_idx + 1, plan.pref_idx + taken)
              another == plan.other_idx < Len(plan.others) /\ taken > 0
              other   == IF another THEN << plan.others[plan.other_idx + 1] >> ELSE << >>
          IN  plan' = [plan EXCEPT !.result    = @ \o pref \o other,
                                   !.pref_idx  = @ + taken,
                                   !.other_idx = IF another THEN @ + 1 ELSE @,
                                   !.passes    = @ + 1]
    /\ UNCHANGED << data, file, now, ret, memo, conc, radio, sockets >>

\* one pass of the while loop: pref_count preferred songs, then one other
PlanPass ==
    /\ PlanLoops
    /\ \E pref_count \in {2, 3} :
          LET taken   == Min(pref_count, Len(plan.preferred) - plan.pref_idx)
              pref    == SubSeq(plan.preferred, plan.pref_idx + 1, plan.pref_idx + taken)
              another == plan.other_idx < Len(plan.others)
              other   == IF another THEN << plan.others[plan.other_idx + 1] >> ELSE << >>
          IN  plan' = [plan EXCEPT !.result    = @ \o pref \o other,
                                   !.pref_idx  = @ + taken,
                                   !.other_idx = IF another THEN @ + 1 ELSE @,
                                   !.passes    = @ + 1]
    /\ UNCHANGED << data, file, now, ret, memo, conc, radio, sockets >>

\* the loop has ended: the result is returned
PlanReturn ==
    /\ plan.pc = "loop"
    /\ ~PlanLoops
    /\ ret' = ShuffleResponse(plan.songs, plan.result, plan.passes)
    /\ plan' = NoPlan
    /\ UNCHANGED << data, file, now, memo, conc, radio, sockets >>

\* the play events recorded between shuffles
PlanRecord ==
    /\ plan.pc = "idle"
    /\ RecordPlayOf({NightDrive, Remix}, {Played, Skipped}, PlanHours, {"written"})

PlanInit == Start({AbsentFile})

PlanNext ==
    \/ PlanBegin
    \/ PlanPass
    \/ PlanReturn
    \/ PlanRecord

PlanSpec == PlanInit /\ [][PlanNext]_vars

\* how many times x occurs in the sequence s
Count(s, x) == Cardinality({i \in 1..Len(s) : s[i] = x})

\* C2 as stated: the order a shuffle returns is a permutation of the songs
\* it was asked for: it has their number, and each of them exactly once.
PlanIsPermutation ==
    ret.op = "shuffle" =>
        /\ Len(ret.order) = Len(ret.songs)
        /\ \A i \in 1..Len(ret.songs) : Count(ret.order, ret.songs[i]) = 1

\* the ways to tell, for each place of result, the half its item was taken
\* from, such that the items told "preferred" are the list preferred in its
\* order and the items told "others" the list others in its order
Origins(result, preferred, others) ==
    LET at(o, half) == {i \in 1..Len(result) : o[i] = half}
        \* the items of result at the places told `half`, in their order
        taken(o, half) ==
            [j \in 1..Cardinality(at(o, half)) |->
                result[CHOOSE i \in at(o, half) :
                          Cardinality({k \in at(o, half) : k <= i}) = j]]
    IN  {o \in [1..Len(result) -> {"preferred", "others"}] :
            /\ Cardinality(at(o, "preferred")) = Len(preferred)
            /\ Cardinality(at(o, "others")) = Len(others)
            /\ \A j \in 1..Len(preferred) : taken(o, "preferred")[j] = preferred[j]
            /\ \A j \in 1..Len(others) : taken(o, "others")[j] = others[j]}

\* the preferred items that precede place i of o since the others item
\* before it, or since the start
RunBefore(o, i) ==
    LET earlier == {k \in 1..(i - 1) : o[k] = "others"}
        from    == IF earlier = {} THEN 0 ELSE CHOOSE k \in earlier : \A m \in earlier : m <= k
    IN  i - 1 - from

\* the first item is a preferred one; an others item follows a run of 2 or
\* 3 preferred ones, or a shorter run that ends the preferred half
Interleaved(o, preferred) ==
    /\ Len(o) > 0 => o[1] = "preferred"
    /\ \A i \in 1..Len(o) :
          o[i] = "others" =>
              \/ RunBefore(o, i) \in {2, 3}
              \/ /\ RunBefore(o, i) < 2
                 /\ Cardinality({k \in 1..(i - 1) : o[k] = "preferred"}) = Len(preferred)

\* C21: the order a shuffle returns is the result of its loop, and that
\* result starts with a preferred item, holds before each others item a run
\* of 2 or 3 preferred items, or fewer where the preferred half ends, and
\* holds two others items side by side only after the last preferred item.
InterleavingPattern ==
    [][ (plan.pc = "loop" /\ ret'.op = "shuffle") =>
           /\ ret'.order = NamesOf(plan.result)
           /\ Len(plan.result) = Len(plan.preferred) + Len(plan.others)
           /\ \E o \in Origins(plan.result, plan.preferred, plan.others) :
                 Interleaved(o, plan.preferred) ]_vars

\* six songs were shuffled in three passes: the third placed an others item
\* next to the one before it
InterleavingReached ==
    /\ ret.op = "shuffle"
    /\ Len(ret.songs) = 6
    /\ Len(ret.order) = 6
    /\ ret.passes = 3

(***************************************************************************)
(* PlanFairSpec: a shuffle that has begun goes on, as the thread of its    *)
(* request does                                                            *)
(***************************************************************************)

PlanFairSpec == PlanSpec /\ WF_vars(PlanPass) /\ WF_vars(PlanReturn)

\* C22: every pass of the loop places at least one item, the number of
\* passes never exceeds len(preferred) + len(others), and a shuffle that
\* has entered its loop leaves it.
PlanTerminates ==
    /\ [][ (plan.pc = "loop" /\ plan'.pc = "loop") =>
              /\ plan'.passes = plan.passes + 1
              /\ Len(plan'.result) > Len(plan.result) ]_vars
    /\ [](plan.pc = "loop" => plan.passes <= Len(plan.preferred) + Len(plan.others))
    /\ (plan.pc = "loop") ~> (plan.pc = "idle")

\* a shuffle of six songs has made its third and last pass, and the loop
\* has nothing left to place
PlanTerminatesReached ==
    /\ plan.pc = "loop"
    /\ ~PlanLoops
    /\ plan.passes = 3
    /\ Len(plan.result) = 6

(***************************************************************************)
(* ConcSpec: record and reset requests handled by two server threads       *)
(* (SocketIO(app, async_mode='threading'): one thread per request, and no  *)
(* lock in the engine).  A thread's request advances one step at a time,   *)
(* and the steps of the two threads interleave.  The augmented             *)
(* assignments to play_count, total_plays, a keyword's weight and a        *)
(* keyword's hour counter are two steps each, the read and the store.      *)
(* The skip/completion block, the artist block and a pass of the genre     *)
(* loop are one step each: the threads interleave less here than in the    *)
(* code, so every behaviour of ConcSpec is a behaviour of the code.        *)
(*                                                                         *)
(* conc[t].attached: the thread's local `stats` is the entry of            *)
(* self.data['song_stats']; after a reset has replaced self.data it is     *)
(* the entry of the replaced dict, kept in conc[t].stats.                  *)
(* conc[t].stale: self.data was replaced between the read and the store    *)
(* of the thread's augmented assignment, so the store goes to the          *)
(* replaced dict.                                                          *)
(***************************************************************************)

\* the names, events and hour of the concurrent requests
ConcNames == {Remix, NovaRemix}

ConcEvents == {Played, Skipped}

ConcHour == 9

\* the thread is between the start and the return of its request
InProgress(t) == conc[t].pc \notin {"idle", "done"}

\* the steps between the read and the store of an augmented assignment on
\* a dict reached through self.data
StorePending == {"total_w", "kw_w", "time_w"}

\* the local variables of thread t
KeywordsAt(t) == FeaturesOf(conc[t].song_name).keywords

GenresAt(t) == FeaturesOf(conc[t].song_name).potential_genre

\* lr * (reward - 0.5)
StepAt(t) == FMul(data.learning_rate, conc[t].reward - One \div 2)

\* the dict the local `stats` refers to
StatsAt(t) ==
    IF conc[t].attached THEN Get(data.song_stats, conc[t].song_name) ELSE conc[t].stats

\* thread t goes on to the step `label`
Goto(t, label) == [conc EXCEPT ![t].pc = label]

\* a request arrives and a thread starts on it
Accept(t) ==
    /\ ~InProgress(t)
    /\ now <= MaxEvents
    /\ \E op \in {"record", "reset"}, song_name \in ConcNames, e \in ConcEvents :
          conc' = [conc EXCEPT ![t] =
                      IF op = "record"
                      THEN [IdleThread EXCEPT !.pc = "create", !.op = op,
                                              !.song_name = song_name, !.event = e,
                                              !.hour = ConcHour, !.at = now]
                      ELSE [IdleThread EXCEPT !.pc = "replace", !.op = op, !.at = now]]
    /\ now' = now + 1
    /\ UNCHANGED << data, file, ret, memo, plan, radio, sockets >>

\* lines 165-176: the entry is created if the song has none; stats = the entry
Create(t) ==
    /\ conc[t].pc = "create"
    /\ data' = IF Has(data.song_stats, conc[t].song_name)
               THEN data
               ELSE [data EXCEPT !.song_stats =
                        Put(@, conc[t].song_name,
                            NewStats(FeaturesOf(conc[t].song_name), conc[t].at))]
    /\ conc' = [conc EXCEPT ![t].pc = "play_r", ![t].attached = TRUE]
    /\ UNCHANGED << file, now, ret, memo, plan, radio, sockets >>

\* the step of thread t that leaves `stats` as s and goes on to `label`
StoreStats(t, s, label) ==
    IF conc[t].attached
    THEN /\ data' = [data EXCEPT !.song_stats = Put(@, conc[t].song_name, s)]
         /\ conc' = Goto(t, label)
    ELSE /\ data' = data
         /\ conc' = [conc EXCEPT ![t].stats = s, ![t].pc = label]

\* line 177, stats['play_count'] += 1: the read
PlayRead(t) ==
    /\ conc[t].pc = "play_r"
    /\ conc' = [conc EXCEPT ![t].tmp = StatsAt(t).play_count, ![t].pc = "play_w"]
    /\ UNCHANGED << data, file, now, ret, memo, plan, radio, sockets >>

\* line 177, the store; line 178, last_played
PlayWrite(t) ==
    /\ conc[t].pc = "play_w"
    /\ StoreStats(t, [StatsAt(t) EXCEPT !.play_count = conc[t].tmp + 1,
                                        !.last_played = conc[t].at], "total_r")
    /\ UNCHANGED << file, now, ret, memo, plan, radio, sockets >>

\* line 179, self.data['total_plays'] += 1: the read
TotalRead(t) ==
    /\ conc[t].pc = "total_r"
    /\ conc' = [conc EXCEPT ![t].tmp = data.total_plays, ![t].pc = "total_w"]
    /\ UNCHANGED << data, file, now, ret, memo, plan, radio, sockets >>

\* line 179, the store
TotalWrite(t) ==
    /\ conc[t].pc = "total_w"
    /\ data' = IF conc[t].stale THEN data
               ELSE [data EXCEPT !.total_plays = conc[t].tmp + 1]
    /\ conc' = [conc EXCEPT ![t].pc = "outcome", ![t].stale = FALSE]
    /\ UNCHANGED << file, now, ret, memo, plan, radio, sockets >>

\* lines 181-192: the skip or the completion is counted, and the reward set
Outcome(t) ==
    LET e       == conc[t].event
        skipped == e[4]
        stats   == StatsAt(t)
        counted == IF skipped
                   THEN [stats EXCEPT !.skip_count = @ + 1]
                   ELSE [stats EXCEPT !.total_completion = @ + Completion(e[1], e[2], e[3])]
        next    == IF KeywordsAt(t) = << >> THEN "artist" ELSE "kw_seed"
        going   == [conc EXCEPT ![t].pc = next, ![t].i = 1,
                                ![t].reward = Reward(e[1], e[2], e[3], e[4])]
    IN  /\ conc[t].pc = "outcome"
        /\ IF conc[t].attached
           THEN /\ data' = [data EXCEPT
                              !.song_stats  = Put(@, conc[t].song_name, counted),
                              !.total_skips = IF skipped THEN @ + 1 ELSE @]
                /\ conc' = going
           ELSE /\ data' = [data EXCEPT !.total_skips = IF skipped THEN @ + 1 ELSE @]
                /\ conc' = [going EXCEPT ![t].stats = counted]
        /\ UNCHANGED << file, now, ret, memo, plan, radio, sockets >>

\* lines 197-198: the keyword is seeded at 0.5
KwSeed(t) ==
    LET keyword == KeywordsAt(t)[conc[t].i]
    IN  /\ conc[t].pc = "kw_seed"
        /\ data' = IF Has(data.keyword_scores, keyword) THEN data
                   ELSE [data EXCEPT !.keyword_scores = Put(@, keyword, One \div 2)]
        /\ conc' = Goto(t, "kw_r")
        /\ UNCHANGED << file, now, ret, memo, plan, radio, sockets >>

\* line 199, the read: a KeyError if a reset took the keyword away
KwRead(t) ==
    LET keyword == KeywordsAt(t)[conc[t].i]
    IN  /\ conc[t].pc = "kw_r"
        /\ conc' = IF Has(data.keyword_scores, keyword)
                   THEN [conc EXCEPT ![t].tmp = Get(data.keyword_scores, keyword),
                                     ![t].pc = "kw_w"]
                   ELSE Goto(t, "raise")
        /\ UNCHANGED << data, file, now, ret, memo, plan, radio, sockets >>

\* line 199, the store
KwWrite(t) ==
    LET keyword == KeywordsAt(t)[conc[t].i]
    IN  /\ conc[t].pc = "kw_w"
        /\ data' = IF conc[t].stale THEN data
                   ELSE [data EXCEPT !.keyword_scores =
                            Put(@, keyword, conc[t].tmp + StepAt(t))]
        /\ conc' = [conc EXCEPT ![t].pc = "kw_clamp", ![t].stale = FALSE]
        /\ UNCHANGED << file, now, ret, memo, plan, radio, sockets >>

\* the step after the last pass of the keyword loop
AfterKeywords(t) ==
    IF Truthy(FeaturesOf(conc[t].song_name).artist) THEN "artist"
    ELSE IF GenresAt(t) # << >> THEN "genre"
    ELSE IF KeywordsAt(t) # << >> THEN "time_seed"
    ELSE "stamp"

\* line 200: the clamp; a KeyError if a reset took the keyword away
KwClamp(t) ==
    LET keyword == KeywordsAt(t)[conc[t].i]
        more    == conc[t].i < Len(KeywordsAt(t))
    IN  /\ conc[t].pc = "kw_clamp"
        /\ IF Has(data.keyword_scores, keyword)
           THEN /\ data' = [data EXCEPT !.keyword_scores =
                               Put(@, keyword, Clamp(Get(@, keyword)))]
                /\ conc' = [conc EXCEPT
                              ![t].pc = IF more THEN "kw_seed" ELSE AfterKeywords(t),
                              ![t].i  = IF more THEN @ + 1 ELSE 1]
           ELSE /\ data' = data
                /\ conc' = Goto(t, "raise")
        /\ UNCHANGED << file, now, ret, memo, plan, radio, sockets >>

\* lines 202-208: the artist's weight
Artist(t) ==
    /\ conc[t].pc = "artist"
    /\ data' = IF Truthy(FeaturesOf(conc[t].song_name).artist)
               THEN [data EXCEPT !.artist_scores =
                        Reinforce(@, ArtistOf(conc[t].song_name),
                                  FMul(data.learning_rate,
                                       conc[t].reward - (3 * One) \div 10))]
               ELSE data
    /\ conc' = [conc EXCEPT ![t].i = 1,
                            ![t].pc = IF GenresAt(t) # << >> THEN "genre"
                                      ELSE IF KeywordsAt(t) # << >> THEN "time_seed"
                                      ELSE "stamp"]
    /\ UNCHANGED << file, now, ret, memo, plan, radio, sockets >>

\* lines 211-215: one pass of the genre loop
Genre(t) ==
    LET more == conc[t].i < Len(GenresAt(t))
    IN  /\ conc[t].pc = "genre"
        /\ data' = [data EXCEPT !.genre_hints =
                       Reinforce(@, GenresAt(t)[conc[t].i], StepAt(t))]
        /\ conc' = [conc EXCEPT
                      ![t].pc = IF more THEN "genre"
                                ELSE IF KeywordsAt(t) # << >> THEN "time_seed"
                                ELSE "stamp",
                      ![t].i  = IF more THEN @ + 1 ELSE 1]
        /\ UNCHANGED << file, now, ret, memo, plan, radio, sockets >>

\* self.data['time_preferences'][current_hour]
BucketAt(t) == data.time_preferences[HourStr(conc[t].hour)]

\* lines 219-220: the keyword's counter is seeded at 0
TimeSeed(t) ==
    LET keyword == FirstFive(KeywordsAt(t))[conc[t].i]
    IN  /\ conc[t].pc = "time_seed"
        /\ data' = IF Has(BucketAt(t), keyword) THEN data
                   ELSE [data EXCEPT !.time_preferences[HourStr(conc[t].hour)] =
                            Put(@, keyword, 0)]
        /\ conc' = Goto(t, "time_r")
        /\ UNCHANGED << file, now, ret, memo, plan, radio, sockets >>

\* line 221, the read: a KeyError if a reset took the counter away
TimeRead(t) ==
    LET keyword == FirstFive(KeywordsAt(t))[conc[t].i]
    IN  /\ conc[t].pc = "time_r"
        /\ conc' = IF Has(BucketAt(t), keyword)
                   THEN [conc EXCEPT ![t].tmp = Get(BucketAt(t), keyword),
                                     ![t].pc = "time_w"]
                   ELSE Goto(t, "raise")
        /\ UNCHANGED << data, file, now, ret, memo, plan, radio, sockets >>

\* line 221, the store
TimeWrite(t) ==
    LET keyword == FirstFive(KeywordsAt(t))[conc[t].i]
        more    == conc[t].i < Len(FirstFive(KeywordsAt(t)))
    IN  /\ conc[t].pc = "time_w"
        /\ data' = IF conc[t].stale THEN data
                   ELSE [data EXCEPT !.time_preferences[HourStr(conc[t].hour)] =
                            Put(@, keyword, conc[t].tmp + 1)]
        /\ conc' = [conc EXCEPT ![t].pc = IF more THEN "time_seed" ELSE "stamp",
                                ![t].i  = IF more THEN @ + 1 ELSE 1,
                                ![t].stale = FALSE]
        /\ UNCHANGED << file, now, ret, memo, plan, radio, sockets >>

\* lines 484-494: self.data = a new default structure.  What the other
\* threads hold of the replaced structure stays with them.
Replace(t) ==
    /\ conc[t].pc = "replace"
    /\ data' = DefaultData
    /\ conc' = [u \in Threads |->
                  IF u = t THEN [conc[u] EXCEPT !.pc = "stamp"]
                  ELSE [conc[u] EXCEPT
                          !.stats    = IF conc[u].attached THEN StatsAt(u) ELSE @,
                          !.attached = FALSE,
                          !.stale    = conc[u].pc \in StorePending]]
    /\ UNCHANGED << file, now, ret, memo, plan, radio, sockets >>

\* line 90: last_updated
Stamp(t) ==
    /\ conc[t].pc = "stamp"
    /\ data' = [data EXCEPT !.last_updated = conc[t].at]
    /\ conc' = Goto(t, "open")
    /\ UNCHANGED << file, now, ret, memo, plan, radio, sockets >>

\* line 91: open(..., 'w') empties the file
Open(t) ==
    /\ conc[t].pc = "open"
    /\ file' = PartialFile
    /\ conc' = Goto(t, "dump")
    /\ UNCHANGED << data, now, ret, memo, plan, radio, sockets >>

\* line 92: json.dump writes the model as it is now
Dump(t) ==
    /\ conc[t].pc = "dump"
    /\ file' = Document(data)
    /\ conc' = Goto(t, "return")
    /\ UNCHANGED << data, now, ret, memo, plan, radio, sockets >>

\* the request is answered
Return(t) ==
    /\ conc[t].pc = "return"
    /\ ret' = IF conc[t].op = "record"
              THEN [ op |-> "record", status |-> 200, song_name |-> conc[t].song_name,
                     completed |-> conc[t].event[1],
                     duration_played |-> conc[t].event[2],
                     total_duration |-> conc[t].event[3],
                     skipped |-> conc[t].event[4], hour |-> conc[t].hour,
                     reward |-> conc[t].reward, saved |-> "written", at |-> conc[t].at ]
              ELSE [op |-> "reset", status |-> 200, saved |-> "written", at |-> conc[t].at]
    /\ conc' = Goto(t, "done")
    /\ UNCHANGED << data, file, now, memo, plan, radio, sockets >>

\* record_play raised: the route answers 500, and nothing is saved
Raise(t) ==
    /\ conc[t].pc = "raise"
    /\ ret' = [ op |-> "record", status |-> 500, song_name |-> conc[t].song_name,
                at |-> conc[t].at ]
    /\ conc' = Goto(t, "done")
    /\ UNCHANGED << data, file, now, memo, plan, radio, sockets >>

ConcInit == Start({AbsentFile})

ConcNext ==
    \E t \in Threads :
        \/ Accept(t)
        \/ Create(t)
        \/ PlayRead(t)
        \/ PlayWrite(t)
        \/ TotalRead(t)
        \/ TotalWrite(t)
        \/ Outcome(t)
        \/ KwSeed(t)
        \/ KwRead(t)
        \/ KwWrite(t)
        \/ KwClamp(t)
        \/ Artist(t)
        \/ Genre(t)
        \/ TimeSeed(t)
        \/ TimeRead(t)
        \/ TimeWrite(t)
        \/ Replace(t)
        \/ Stamp(t)
        \/ Open(t)
        \/ Dump(t)
        \/ Return(t)
        \/ Raise(t)

ConcSpec == ConcInit /\ [][ConcNext]_vars

\* C3 as stated: at no moment are two of the record and reset requests (each
\* with its save) in progress at the same time.
MutualExclusion ==
    Cardinality({t \in Threads : InProgress(t)}) <= 1

\* the model after the events of threads t and u, recorded one after the
\* other on the default model
InTurn(t, u) ==
    LET first  == record_play(DefaultData, conc[t].song_name, conc[t].event[1],
                              conc[t].event[2], conc[t].event[3], conc[t].event[4],
                              conc[t].hour, conc[t].at).data
    IN  record_play(first, conc[u].song_name, conc[u].event[1], conc[u].event[2],
                    conc[u].event[3], conc[u].event[4], conc[u].hour, conc[u].at).data

\* the two requests of the run were records of different songs, and both
\* have returned
BothRecorded ==
    /\ \A t \in Threads : conc[t].pc = "done" /\ conc[t].op = "record"
    /\ conc[1].song_name # conc[2].song_name
    /\ {conc[1].at, conc[2].at} = {1, 2}

\* C4 as stated: after two play events of different songs that share a
\* keyword were recorded by two threads, total_plays has grown by 2, each
\* song's play_count by 1, and the weight and the hour counter of each
\* shared keyword are those of the two events recorded in one of the two
\* orders.
NoLostUpdates ==
    BothRecorded =>
        /\ ret.status = 200
        /\ data.total_plays = 2
        /\ \A t \in Threads :
              /\ Has(data.song_stats, conc[t].song_name)
              /\ Get(data.song_stats, conc[t].song_name).play_count = 1
        /\ \E order \in {<< 1, 2 >>, << 2, 1 >>} :
              LET d == InTurn(order[1], order[2])
              IN  \A k \in Range(KeywordsAt(1)) \cap Range(KeywordsAt(2)) :
                     /\ Has(data.keyword_scores, k)
                     /\ Get(data.keyword_scores, k) = Get(d.keyword_scores, k)
                     /\ Has(BucketAt(1), k)
                     /\ Get(BucketAt(1), k) = Get(d.time_preferences[HourStr(ConcHour)], k)

\* the two requests of the run were a record and a reset, one on each
\* thread, and both have returned
ResetAndRecordDone(t, u) ==
    /\ conc[t].pc = "done" /\ conc[t].op = "record"
    /\ conc[u].pc = "done" /\ conc[u].op = "reset"

\* the default model with the event of thread t applied in full
RecordedAlone(t) ==
    record_play(DefaultData, conc[t].song_name, conc[t].event[1], conc[t].event[2],
                conc[t].event[3], conc[t].event[4], conc[t].hour, conc[t].at).data

\* C28 as stated: once a reset and a record started on the default model
\* have both returned, the model in memory is the default model or the
\* default model with that one event applied in full.
ResetRaceWhole ==
    \A t, u \in Threads :
        ResetAndRecordDone(t, u) =>
            \/ data = [DefaultData EXCEPT !.last_updated = data.last_updated]
            \/ data = [RecordedAlone(t) EXCEPT !.last_updated = data.last_updated]

\* C11: a record whose save fails is still answered with its reward, and
\* the model in memory keeps the event's updates (and the time of the
\* attempted save); when the save of the next record or reset is written,
\* the file holds the whole model in memory, which for a record still
\* counts the event whose save failed.
FailedSaveKeeps ==
    [][ /\ (ret'.op = "record" /\ ret'.saved # "written") =>
              /\ ret'.status = 200
              /\ ret'.reward = Reward(ret'.completed, ret'.duration_played,
                                      ret'.total_duration, ret'.skipped)
              /\ data' = [record_play(data, ret'.song_name, ret'.completed,
                                      ret'.duration_played, ret'.total_duration,
                                      ret'.skipped, ret'.hour, ret'.at).data
                             EXCEPT !.last_updated = ret'.at]
        /\ (ret.op = "record" /\ ret.saved # "written"
              /\ ret'.op \in {"record", "reset"} /\ ret'.saved = "written") =>
              /\ file' = Document(data')
              /\ ret'.op = "record" =>
                    /\ file'.value.total_plays = data.total_plays + 1
                    /\ Has(file'.value.song_stats, ret.song_name)
                    /\ \A k \in Range(FeaturesOf(ret.song_name).keywords) :
                          Has(file'.value.keyword_scores, k) ]_vars

\* a play was recorded whose save failed after an earlier one was written:
\* the request is answered with the reward, the model counts both events,
\* the file does not hold the model
FailedSaveReached ==
    /\ ret.op = "record"
    /\ ret.saved # "written"
    /\ ret.status = 200
    /\ ret.reward = One
    /\ data.total_plays = 2
    /\ data.last_updated = ret.at
    /\ file # Document(data)

\* C29 as stated: once a save has succeeded, the preferences file is at
\* every moment a complete document, the model in memory at the time of
\* some save, also after a save that fails part-way; a restart then loads
\* that model and not the default one.
DurableStoreWhole ==
    [][ file.kind = "object" =>
           /\ file'.kind = "object"
           /\ file' = file \/ file' = Document(data')
           /\ ret'.op = "start" => data' = file.value ]_vars

(***************************************************************************)
(* LoadSpec: the engine is constructed on whatever the preferences file    *)
(* holds                                                                   *)
(***************************************************************************)

\* a saved model in which every field differs from its default
SampleModel ==
    [Replayed(DefaultData, NovaRemix, Played, 9, 0) EXCEPT
        !.learning_rate = One \div 5, !.total_skips = 3]

\* the fields a document can hold: those of the model, and one that the
\* default structure does not have
SampleFields ==
    [key \in DOMAIN DefaultData \cup {"version"} |->
        IF key = "version" THEN 2 ELSE SampleModel[key]]

\* the sets of fields of the sample documents: few fields, or few missing
FieldSets ==
    {S \in SUBSET DOMAIN SampleFields :
        Cardinality(S) <= 2 \/ Cardinality(S) >= Cardinality(DOMAIN SampleFields) - 2}

\* the keys of the default structure, and all of them in one text
KeyList == [i \in 1..Len(DefaultKeys) |-> DefaultKeys[i].key]

RECURSIVE Joined(_)
Joined(keys) ==
    IF Len(keys) = 0 THEN << >>
    ELSE IF Len(keys) = 1 THEN Head(keys).chars
    ELSE Head(keys).chars \o << " " >> \o Joined(Tail(keys))

\* what the preferences file can hold when the engine starts
LoadFiles ==
    { AbsentFile, UnreadableFile, PartialFile, NullFile, NumberFile, BooleanFile,
      ArrayFile(<< >>), ArrayFile(<< "song_stats" >>), ArrayFile(KeyList),
      StringFile(<< "a", "b", "c" >>), StringFile(Joined(DefaultKeys)) }
    \cup {[kind |-> "object", value |-> [key \in S |-> SampleFields[key]]] : S \in FieldSets}

LoadInit == Start(LoadFiles)

\* the process is stopped, the file is replaced, and the process is started
StartOver ==
    /\ \E f \in LoadFiles :
          /\ file' = f
          /\ data' = load_preferences(f)
    /\ ret' = [op |-> "start"]
    /\ UNCHANGED << now, memo, plan, conc, radio, sockets >>

LoadNext == StartOver

LoadSpec == LoadInit /\ [][LoadNext]_vars

\* C12 as stated: on a file that is absent, unreadable, unparsable or holds
\* a JSON value that is not an object, the engine starts with exactly the
\* default model.
LoadsDefault ==
    (ret.op = "start" /\ file.kind # "object") => data = DefaultData

\* C13: on a file that holds a JSON object, the loaded model has every
\* field of the default structure; a field the object lacks has its default
\* value, and a field the object holds keeps the object's value.
MergedOnLoad ==
    (ret.op = "start" /\ file.kind = "object") =>
        /\ DOMAIN data = DOMAIN DefaultData \cup DOMAIN file.value
        /\ \A key \in DOMAIN data :
              data[key] = IF key \in DOMAIN file.value
                          THEN file.value[key]
                          ELSE DefaultData[key]

\* the engine started on an object that holds song_stats, learning_rate and
\* a field of its own, and lacks total_plays and time_preferences
MergeReached ==
    /\ ret.op = "start"
    /\ file.kind = "object"
    /\ {"song_stats", "learning_rate", "version"} \subseteq DOMAIN file.value
    /\ "total_plays" \notin DOMAIN file.value
    /\ "time_preferences" \notin DOMAIN file.value
    /\ data.song_stats = SampleModel.song_stats
    /\ data.learning_rate = One \div 5
    /\ data.version = 2
    /\ data.total_plays = 0
    /\ data.time_preferences = DefaultData.time_preferences

(***************************************************************************)
(* get_download_recommendations (352-443).  A suggestion is held as its    *)
(* query, confidence and type; its 'reason', a text for display built from *)
(* the same names, is left out.                                            *)
(***************************************************************************)

\* [e for e in entries if e[1] > floor]
Above(entries, floor) ==
    LET over(e) == e.v > floor
    IN  SelectSeq(entries, over)

\* lines 360-378: the top 10 keywords, top 5 artists and top 3 genres
TopWeights(d) ==
    LET weight(e) == e.v
    IN  [ top_keywords |-> Take(SortedDesc(d.keyword_scores, weight), 10),
          top_artists  |-> Take(SortedDesc(d.artist_scores, weight), 5),
          top_genres   |-> Take(SortedDesc(d.genre_hints, weight), 3) ]

\* lines 381-388: one suggestion for each of the top 3 artists above 0.55
ByArtist(d) ==
    LET liked == Above(Take(TopWeights(d).top_artists, 3), (55 * One) \div 100)
    IN  [i \in 1..Len(liked) |->
            [ query      |-> liked[i].k \o " popular songs",
              confidence |-> liked[i].v,
              type       |-> "artist" ]]

\* lines 393-404
genre_queries ==
    << [k |-> "electronic", v |-> "best electronic dance music 2024"],
       [k |-> "hiphop",     v |-> "top hip hop rap songs"],
       [k |-> "rock",       v |-> "best rock songs playlist"],
       [k |-> "pop",        v |-> "top pop hits 2024"],
       [k |-> "classical",  v |-> "beautiful classical music pieces"],
       [k |-> "jazz",       v |-> "best jazz songs relaxing"],
       [k |-> "ambient",    v |-> "chill ambient music relax"],
       [k |-> "indian",     v |-> "top bollywood hindi songs"],
       [k |-> "lofi",       v |-> "lofi hip hop beats study"],
       [k |-> "acoustic",   v |-> "acoustic covers popular songs"] >>

\* lines 391-410: one suggestion for each of the top 3 genres above 0.55
ByGenre(d) ==
    LET liked == Above(TopWeights(d).top_genres, (55 * One) \div 100)
    IN  [i \in 1..Len(liked) |->
            [ query      |-> IF Has(genre_queries, liked[i].k)
                             THEN Get(genre_queries, liked[i].k)
                             ELSE "best " \o liked[i].k \o " music",
              confidence |-> liked[i].v,
              type       |-> "genre" ]]

\* ' '.join(words)
RECURSIVE JoinWords(_)
JoinWords(words) ==
    IF Len(words) = 0 THEN ""
    ELSE IF Len(words) = 1 THEN Head(words)
    ELSE Head(words) \o " " \o JoinWords(Tail(words))

\* lines 413-422: with two or more keywords known, one suggestion from the
\* strongest keywords above 0.6
ByKeywords(d) ==
    LET top_keywords    == TopWeights(d).top_keywords
        strong          == Take(Above(top_keywords, (6 * One) \div 10), 3)
        strong_keywords == [i \in 1..Len(strong) |-> strong[i].k]
    IN  IF Len(top_keywords) >= 2 /\ strong_keywords # << >>
        THEN << [ query      |-> JoinWords(Take(strong_keywords, 2)) \o " songs",
                  confidence |-> (7 * One) \div 10,
                  type       |-> "keywords" ] >>
        ELSE << >>

\* a time rule whose suggestions carry confidence 0.9
ByTimeConfident(current_hour) ==
    IF 22 <= current_hour \/ current_hour < 6
    THEN << [ query |-> "calm relaxing night music",
              confidence |-> (9 * One) \div 10, type |-> "time" ] >>
    ELSE IF 6 <= current_hour /\ current_hour < 10
    THEN << [ query |-> "morning motivation music energetic",
              confidence |-> (9 * One) \div 10, type |-> "time" ] >>
    ELSE << >>

\* lines 425-439: one suggestion at night and one in the morning
ByTime(current_hour) ==
    IF 22 <= current_hour \/ current_hour < 6
    THEN << [ query |-> "calm relaxing night music",
              confidence |-> (6 * One) \div 10, type |-> "time" ] >>
    ELSE IF 6 <= current_hour /\ current_hour < 10
    THEN << [ query |-> "morning motivation music energetic",
              confidence |-> (6 * One) \div 10, type |-> "time" ] >>
    ELSE << >>

\* the list `recommendations` before line 442, in the order of the appends
Emitted(d, current_hour) ==
    ByArtist(d) \o ByGenre(d) \o ByKeywords(d) \o ByTime(current_hour)

\* s[:n], for n of either sign
UpTo(s, n) ==
    IF n >= 0 THEN Take(s, n) ELSE SubSeq(s, 1, Max(0, Len(s) + n))

\* suggestions cut to count in the order of their rules, unsorted
get_download_recommendations_unsorted(d, count, current_hour) ==
    UpTo(Emitted(d, current_hour), count)

\* lines 442-443: sorted by confidence, the higher first and equal ones in
\* the order of the appends, and cut to count
get_download_recommendations(d, count, current_hour) ==
    LET confidence(r) == r.confidence
    IN  UpTo(SortedDesc(Emitted(d, current_hour), confidence), count)

(***************************************************************************)
(* SuggestSpec: records and download suggestions, one request at a time    *)
(***************************************************************************)

\* a track played to its end and not reported as completed
Unfinished == << FALSE, 180, 180, FALSE >>

\* the count parameter of the request; 5 when the request has none
CountSamples == {0, 1, 2, 5}

HoursOfDay == 0..23

SuggestNames == {NightRemix, NovaRemix}

\* Files of earlier runs: none; 10 complete plays of "DJ Nova - Remix"; 15
\* unfinished plays of it; one complete play of "DJ Nova - Night Drive";
\* 3 complete plays of "Night Remix.mp3"
SuggestFiles ==
    { AbsentFile,
      Document(Replay(DefaultData, 10, NovaRemix, Played, 9)),
      Document(Replay(DefaultData, 15, NovaRemix, Unfinished, 9)),
      Document(Replay(DefaultData, 1, NightDrive, Played, 9)),
      Document(Replay(DefaultData, 3, NightRemix, Played, 9)) }

\* GET /api/recommend/download-suggestions?count=n at the given hour
SuggestOf(counts, hours) ==
    /\ \E count \in counts, hour \in hours :
          ret' = [ op |-> "suggest", status |-> 200, count |-> count, hour |-> hour,
                   recommendations |-> get_download_recommendations(data, count, hour),
                   at |-> now ]
    /\ UNCHANGED << data, file, now, memo, plan, conc, radio, sockets >>

SuggestInit == Start(SuggestFiles)

SuggestRecord == RecordPlayOf(SuggestNames, {Skipped, Unfinished}, {9}, {"written"})

Suggest == SuggestOf(CountSamples, HoursOfDay)

SuggestNext ==
    \/ SuggestRecord
    \/ Suggest

SuggestSpec == SuggestInit /\ [][SuggestNext]_vars

\* how often x is in the list s
TimesIn(x, s) == Cardinality({i \in 1..Len(s) : s[i] = x})

\* C14: for a count >= 0, the suggestions returned are at most count, in
\* order of non-increasing confidence, all among the emitted ones, as many
\* as count allows, and no emitted suggestion left out has a higher
\* confidence than one returned.
TopSuggestions ==
    (ret.op = "suggest" /\ ret.count >= 0) =>
        LET got     == ret.recommendations
            emitted == Emitted(data, ret.hour)
        IN  /\ Len(got) = Min(ret.count, Len(emitted))
            /\ \A i, j \in 1..Len(got) : i < j => got[i].confidence >= got[j].confidence
            /\ \A r \in Range(got) : TimesIn(r, got) <= TimesIn(r, emitted)
            /\ \A e \in Range(emitted) :
                  TimesIn(e, got) < TimesIn(e, emitted) =>
                      \A r \in Range(got) : r.confidence >= e.confidence

\* at night, after one complete play of "DJ Nova - Night Drive", one
\* suggestion was asked for: the time suggestion and not the artist's, which
\* was emitted first, is returned
TopSuggestionsReached ==
    /\ ret.op = "suggest" /\ ret.count = 1 /\ ret.hour = 23
    /\ Len(Emitted(data, 23)) = 2
    /\ Emitted(data, 23)[1].type = "artist"
    /\ Len(ret.recommendations) = 1
    /\ ret.recommendations[1].type = "time"

\* the suggestions of one type among a list of suggestions
OfType(recommendations, type) ==
    LET typed(r) == r.type = type
    IN  SelectSeq(recommendations, typed)

\* the artists of the model d with a weight above 0.55
LikedArtists(d) == Above(d.artist_scores, (55 * One) \div 100)

\* exactly one artist of d has a weight above 0.55, and no genre and no
\* keyword has
OneLikedArtist(d) ==
    /\ Len(LikedArtists(d)) = 1
    /\ Above(d.genre_hints, (55 * One) \div 100) = << >>
    /\ Above(d.keyword_scores, (55 * One) \div 100) = << >>

\* C15, amended: on a model with exactly one artist above 0.55 and no genre
\* or keyword above 0.55, suggest(5) holds exactly one artist suggestion,
\* with query "<artist> popular songs" and the artist's weight as confidence.
\* It is the first entry when the weight is at least 0.6 or the hour is one
\* of 10..21; with a weight below 0.6 at an hour of the night or morning
\* rule, the time suggestion (0.6) is first and the artist's is second.
ArtistSuggestionFirst ==
    (ret.op = "suggest" /\ ret.count = 5 /\ OneLikedArtist(data)) =>
        LET artist == LikedArtists(data)[1]
            got    == ret.recommendations
            timed  == ret.hour \notin 10..21
        IN  /\ OfType(got, "artist") =
                  << [ query      |-> artist.k \o " popular songs",
                       confidence |-> artist.v,
                       type       |-> "artist" ] >>
            /\ (artist.v >= (6 * One) \div 10 \/ ~timed) => got[1].type = "artist"
            /\ (artist.v < (6 * One) \div 10 /\ timed) =>
                  /\ got[1].type = "time"
                  /\ got[2].type = "artist"

\* at 23 h, suggest(5) on the model of 15 unfinished plays of
\* "DJ Nova - Remix" (dj nova at 0.8, remix and electronic at 0.5) answered
\* with the artist suggestion before the time suggestion
ArtistFirstReached ==
    /\ ret.op = "suggest" /\ ret.count = 5 /\ ret.hour = 23
    /\ OneLikedArtist(data)
    /\ Get(data.artist_scores, "dj nova") = (8 * One) \div 10
    /\ Len(ret.recommendations) = 2
    /\ ret.recommendations[1] =
          [query |-> "dj nova popular songs", confidence |-> (8 * One) \div 10, type |-> "artist"]
    /\ ret.recommendations[2].type = "time"

\* C15 as stated: on such a model the one artist suggestion of suggest(5)
\* is the first entry at every hour of the day.
ArtistAlwaysFirst ==
    (ret.op = "suggest" /\ ret.count = 5 /\ OneLikedArtist(data)) =>
        /\ Len(OfType(ret.recommendations, "artist")) = 1
        /\ ret.recommendations[1] =
              [ query      |-> LikedArtists(data)[1].k \o " popular songs",
                confidence |-> LikedArtists(data)[1].v,
                type       |-> "artist" ]

\* C16 as stated: when at least one of the top 10 keywords has a weight
\* above 0.6, the emitted suggestions hold exactly one of type keywords, of
\* confidence 0.7, whose query joins the first two such keywords and
\* " songs"; when none has, they hold none.
KeywordRule ==
    ret.op = "suggest" =>
        LET strong == Above(TopWeights(data).top_keywords, (6 * One) \div 10)
            words  == [i \in 1..Len(strong) |-> strong[i].k]
            found  == OfType(Emitted(data, ret.hour), "keywords")
        IN  IF strong # << >>
            THEN found = << [ query      |-> JoinWords(Take(words, 2)) \o " songs",
                              confidence |-> (7 * One) \div 10,
                              type       |-> "keywords" ] >>
            ELSE found = << >>

(***************************************************************************)
(* Scores of songs the model knows little about (properties of Spec)       *)
(***************************************************************************)

\* the model d holds nothing for the song: no statistics, no weight for a
\* keyword, the artist or a genre tag of it, no counter of the hour for a
\* keyword of it
Unseen(d, song_name, hour) ==
    LET features == FeaturesOf(song_name)
    IN  /\ ~Has(d.song_stats, song_name)
        /\ \A k \in Range(features.keywords) :
              /\ ~Has(d.keyword_scores, k)
              /\ ~Has(d.time_preferences[HourStr(hour)], k)
        /\ Truthy(features.artist) => ~Has(d.artist_scores, ArtistOf(song_name))
        /\ \A g \in Range(features.potential_genre) : ~Has(d.genre_hints, g)

\* C17 as stated: the score of a song the model holds nothing for is
\* exactly 0.5, with no component, also when its name carries genre tags.
UnseenScoresBase ==
    (ret.op = "score" /\ Unseen(data, ret.song_name, ret.hour)) =>
        /\ ret.status = 200
        /\ ret.score = Unit \div 2
        /\ ret.components = << >>

\* the genre tags of the song that have a weight in the model d
KnownGenres(d, song_name) ==
    LET known(g) == Has(d.genre_hints, g)
    IN  SelectSeq(FeaturesOf(song_name).potential_genre, known)

\* C20 as stated: for a song of which some genre tags have a learned weight
\* and some have none, the genre component of the score is the sum of the
\* known weights divided by the number of known ones.
GenreMeanOfKnown ==
    ret.op = "score" =>
        LET tags  == FeaturesOf(ret.song_name).potential_genre
            known == KnownGenres(data, ret.song_name)
        IN  (known # << >> /\ Len(known) < Len(tags)) =>
                /\ Has(ret.components, "genre")
                /\ Get(ret.components, "genre") =
                      (SumKnown(data.genre_hints, known) * Fine) \div Len(known)

(***************************************************************************)
(* RewardSpec: the reward of one play event, over its durations and flags  *)
(***************************************************************************)

\* whole seconds: none, one, half a track, 2^7, 2^7 + 1, a track, two tracks
SecondSamples == {0, 1, 90, 128, 129, 180, 360}

PlayedSamples ==
    {Whole(n) : n \in SecondSamples} \cup {JustBelow(n) : n \in SecondSamples \ {0}}

\* the body of a POST /api/recommend/record
RewardInit ==
    /\ memo = [n \in AllNames |-> CacheEntry(n)]
    /\ file = AbsentFile
    /\ data = DefaultData
    /\ now = 1
    /\ ret \in [ op : {"event"}, completed : BOOLEAN, played : PlayedSamples,
                 total_duration : SecondSamples, skipped : BOOLEAN ]
    /\ plan = NoPlan
    /\ conc = [t \in Threads |-> IdleThread]
    /\ radio = RadioOff
    /\ sockets = NoSockets

\* lines 181-192 on that event
Rate ==
    /\ ret.op = "event"
    /\ ret' = [ op |-> "reward", completed |-> ret.completed, played |-> ret.played,
                total_duration |-> ret.total_duration, skipped |-> ret.skipped,
                reward |-> RewardOf(ret.completed, ret.played, ret.total_duration,
                                    ret.skipped) ]
    /\ UNCHANGED << data, file, now, memo, plan, conc, radio, sockets >>

RewardNext == Rate

RewardSpec == RewardInit /\ [][RewardNext]_vars

\* the played duration is at least the total one
PlayedAll(played, total_duration) ==
    \/ played.seconds > total_duration
    \/ played.seconds = total_duration /\ ~played.short

\* the played duration is the double just below the total one, and their
\* quotient the double just below 1.0
PlayedNearlyAll(played, total_duration) ==
    /\ played.seconds = total_duration
    /\ played.short
    /\ UlpsBelowOne(total_duration) = 1

\* C19, amended: the reward of a skipped event is -0.3 and any other reward
\* lies in [0, 1]; it is 1.0 exactly when the event is not skipped, is
\* completed, and the total duration is 0, or the played duration is at
\* least the total one, or their quotient is the double just below 1.0.
RewardInRange ==
    ret.op = "reward" =>
        /\ ret.skipped => ret.reward = SkipReward
        /\ ~ret.skipped => ret.reward >= 0 /\ ret.reward <= One
        /\ ret.reward = One <=>
              /\ ~ret.skipped
              /\ ret.completed
              /\ \/ ret.total_duration = 0
                 \/ PlayedAll(ret.played, ret.total_duration)
                 \/ PlayedNearlyAll(ret.played, ret.total_duration)

\* a completed play of a track of 180 s, reported with the double just below
\* 180 as its played duration, was rewarded 1.0
RewardRangeReached ==
    /\ ret.op = "reward"
    /\ ret.completed /\ ~ret.skipped
    /\ ret.played = JustBelow(180) /\ ret.total_duration = 180
    /\ ret.reward = One

\* C19 as stated: the reward is -0.3 when skipped and otherwise in [0, 1],
\* and it is 1.0 if and only if the event is not skipped, is completed, and
\* durationPlayed >= totalDuration > 0 or totalDuration = 0.
RewardOneIffFull ==
    ret.op = "reward" =>
        /\ ret.skipped => ret.reward = SkipReward
        /\ ~ret.skipped => ret.reward >= 0 /\ ret.reward <= One
        /\ ret.reward = One <=>
              /\ ~ret.skipped
              /\ ret.completed
              /\ \/ ret.total_duration = 0
                 \/ PlayedAll(ret.played, ret.total_duration)

(***************************************************************************)
(* HistorySpec: the history factor of one track after n skips, and after n *)
(* complete plays, recorded on the same model                              *)
(***************************************************************************)

MaxPlays == 12

HistoryNames == {NightDrive, NightRemix, RockRemix}

\* the engine on the file of an earlier run, and a track and a number of
\* events to record for it
HistoryInit ==
    /\ memo = [n \in AllNames |-> CacheEntry(n)]
    /\ file \in PriorFiles
    /\ data = load_preferences(file)
    /\ now = 1
    /\ ret \in [op : {"track"}, n : 1..MaxPlays, song_name : HistoryNames]
    /\ plan = NoPlan
    /\ conc = [t \in Threads |-> IdleThread]
    /\ radio = RadioOff
    /\ sockets = NoSockets

\* the song's statistics in the model d and the history factor computed
\* from them (273-291)
HistoryOf(d, song_name) ==
    [ stats  |-> Get(d.song_stats, song_name),
      factor |-> HistoryFactor(d, song_name) ]

\* the two histories: n events recorded as skipped, n as played to the end
Histories ==
    /\ ret.op = "track"
    /\ ret' = [ op |-> "histories", n |-> ret.n, song_name |-> ret.song_name,
                skipped   |-> HistoryOf(Replay(data, ret.n, ret.song_name, Skipped, 9),
                                        ret.song_name),
                completed |-> HistoryOf(Replay(data, ret.n, ret.song_name, Played, 9),
                                        ret.song_name) ]
    /\ UNCHANGED << data, file, now, memo, plan, conc, radio, sockets >>

HistoryNext == Histories

HistorySpec == HistoryInit /\ [][HistoryNext]_vars

\* C18: with the same play_count n >= 1, the history contribution after n
\* skipped events is strictly lower than after n complete plays; after 3
\* skips the song has skip_ratio 1 (3 skips of 3 plays) and avg_completion
\* 0, after 3 complete plays skip_ratio 0 and avg_completion 1.
HistoryOrdering ==
    ret.op = "histories" =>
        /\ ret.skipped.stats.play_count = ret.n
        /\ ret.completed.stats.play_count = ret.n
        /\ ret.skipped.factor.add < ret.completed.factor.add
        /\ ret.n = 3 =>
              /\ ret.skipped.stats.skip_count = 3
              /\ ret.skipped.factor.value = 0
              /\ ret.completed.stats.skip_count = 0
              /\ ret.completed.factor.value = Unit

\* the two histories of "DJ Nova - Night Drive" after 3 events: 0.275 is
\* taken off the familiarity bonus after the skips, 0.075 is added to it
\* after the complete plays
HistoryOrderingReached ==
    /\ ret.op = "histories"
    /\ ret.n = 3
    /\ ret.song_name = NightDrive
    /\ ret.skipped.factor.add = FamiliarityBoost(3) - (275 * Unit) \div 1000
    /\ ret.completed.factor.add = FamiliarityBoost(3) + (75 * Unit) \div 1000

(***************************************************************************)
(* What a record leaves in the statistics and the hour buckets             *)
(* (properties of Spec)                                                    *)
(***************************************************************************)

\* the sum of the counters of one hour bucket
RECURSIVE BucketSum(_)
BucketSum(bucket) ==
    IF bucket = << >> THEN 0 ELSE Head(bucket).v + BucketSum(Tail(bucket))

\* the counter of keyword k in a bucket, 0 if it has none
CounterOf(bucket, k) == IF Has(bucket, k) THEN Get(bucket, k) ELSE 0

\* C23: the model has the 24 buckets "0".."23" at all times; a record at
\* hour h adds to bucket h one per occurrence of each of the first five
\* keywords of the name, min(5, number of keywords) in all, whatever its
\* reward, and leaves the other 23 buckets as they were.
HourBuckets ==
    /\ [](DOMAIN data.time_preferences = Range(HourNames))
    /\ [][ ret'.op = "record" =>
              LET keywords == FeaturesOf(ret'.song_name).keywords
                  five     == SubSeq(keywords, 1, Min(5, Len(keywords)))
                  h        == HourStr(ret'.hour)
              IN  /\ BucketSum(data'.time_preferences[h])
                        = BucketSum(data.time_preferences[h]) + Min(5, Len(keywords))
                  /\ \A k \in Range(keywords) :
                        CounterOf(data'.time_preferences[h], k)
                           = CounterOf(data.time_preferences[h], k) + Occurrences(five, k)
                  /\ \A g \in Range(HourNames) \ {h} :
                        data'.time_preferences[g] = data.time_preferences[g] ]_vars

\* a skip of the six-keyword name "RiRi - Work Work Work Work Work Work"
\* was recorded: the counter of work in the bucket of its hour is 5
HourBucketsReached ==
    /\ ret.op = "record"
    /\ ret.song_name = WorkWork
    /\ ret.skipped
    /\ Len(FeaturesOf(WorkWork).keywords) = 6
    /\ data.time_preferences[HourStr(ret.hour)] = << [k |-> "work", v |-> 5] >>

\* C24: a step that is no reset keeps every entry of song_stats, with its
\* feature snapshot and first_played as they were and a play_count that is
\* not lower; an entry is new only after a record, and only for the name
\* recorded.
StatsPersist ==
    [][ ret'.op # "reset" =>
           /\ \A i \in 1..Len(data.song_stats) :
                 LET name == data.song_stats[i].k
                     old  == data.song_stats[i].v
                 IN  /\ Has(data'.song_stats, name)
                     /\ Get(data'.song_stats, name).features = old.features
                     /\ Get(data'.song_stats, name).first_played = old.first_played
                     /\ Get(data'.song_stats, name).play_count >= old.play_count
           /\ \A i \in 1..Len(data'.song_stats) :
                 ~Has(data.song_stats, data'.song_stats[i].k) =>
                     /\ ret'.op = "record"
                     /\ ret'.song_name = data'.song_stats[i].k
                     /\ data'.song_stats[i].v.first_played = ret'.at
                     /\ data'.song_stats[i].v.features = FeaturesOf(ret'.song_name) ]_vars

\* the second event of a song was recorded: its entry has play_count 2 and
\* the first_played of the first event
StatsPersistReached ==
    /\ ret.op = "record"
    /\ ret.at = 2
    /\ Has(data.song_stats, ret.song_name)
    /\ Get(data.song_stats, ret.song_name).play_count = 2
    /\ Get(data.song_stats, ret.song_name).first_played = 1
    /\ Get(data.song_stats, ret.song_name).last_played = 2

\* the sum of a counter over the entries of song_stats
RECURSIVE SumOver(_, _)
SumOver(stats, field) ==
    IF stats = << >> THEN 0 ELSE Head(stats).v[field] + SumOver(Tail(stats), field)

\* C26: total_plays is the sum of play_count over song_stats, total_skips
\* the sum of skip_count, and every entry has 0 <= skip_count <= play_count
\* and play_count >= 1.
CountersConsistent ==
    /\ data.total_plays = SumOver(data.song_stats, "play_count")
    /\ data.total_skips = SumOver(data.song_stats, "skip_count")
    /\ \A i \in 1..Len(data.song_stats) :
          /\ 0 <= data.song_stats[i].v.skip_count
          /\ data.song_stats[i].v.skip_count <= data.song_stats[i].v.play_count
          /\ data.song_stats[i].v.play_count >= 1

\* a skip of a second song was recorded on a model that held ten plays of
\* one song: two entries, eleven plays, one skip
CountersReached ==
    /\ ret.op = "record"
    /\ ret.skipped
    /\ Len(data.song_stats) = 2
    /\ data.total_plays = 11
    /\ data.total_skips = 1

(***************************************************************************)
(* FeatureSpec: records and scores of names with and without " by "        *)
(***************************************************************************)

FeatureNames == {DriveByNova, NovaRemix, Remix}

FeatureInit == Start(PriorFiles)

FeatureRecord == RecordPlayOf(FeatureNames, {Played, Skipped}, HourSamples, {"written"})

FeatureScore == ScoreOf(FeatureNames, HourSamples)

FeatureNext ==
    \/ FeatureRecord
    \/ FeatureScore

FeatureSpec == FeatureInit /\ [][FeatureNext]_vars

\* the name without its extension, lower-cased
LoweredRoot(song_name) == Lower(SplitExtRoot(Chars(song_name)))

\* a name without " - " whose lower-cased form contains " by "
HasByArtist(song_name) ==
    /\ ~Contains(SplitExtRoot(Chars(song_name)), DashSep)
    /\ Contains(LoweredRoot(song_name), BySep)

\* the keyword tokens of the segment to the left of the first " by "
LeftTokens(song_name) ==
    Range(Strs(KeywordsOf(SplitFirst(LoweredRoot(song_name), BySep)[1])))

\* the feature snapshot the record of ret stored: what extract returned
Extracted == Get(data.song_stats, ret.song_name).features

\* the artist of a " by " name is the trimmed text right of the first " by "
ByArtistExtracted ==
    (ret.op = "record" /\ HasByArtist(ret.song_name)) =>
        Extracted.artist
           = SomeText(Str(Strip(SplitFirst(LoweredRoot(ret.song_name), BySep)[2])))

\* C25 as stated: for a name without " - " whose lower-cased form contains
\* " by ", extract returns as artist the trimmed text right of the first
\* " by ", and no keyword token comes from the segment left of it.
ByArtistOnly ==
    (ret.op = "record" /\ HasByArtist(ret.song_name)) =>
        /\ Extracted.artist
              = SomeText(Str(Strip(SplitFirst(LoweredRoot(ret.song_name), BySep)[2])))
        /\ Range(Extracted.keywords) \cap LeftTokens(ret.song_name) = {}

(***************************************************************************)
(* ErrorSpec: record requests the route answers with an error              *)
(***************************************************************************)

\* record_play up to the statement that raises TypeError on a duration
\* that is no number (total_duration > 0, or duration_played /
\* total_duration): lines 162-179 have run, nothing after them has
record_play_raising(d, song_name, t) ==
    LET features == FeaturesOf(song_name)
        created  == IF Has(d.song_stats, song_name)
                    THEN d.song_stats
                    ELSE Put(d.song_stats, song_name, NewStats(features, t))
        stats    == Get(created, song_name)
        played   == [stats EXCEPT !.play_count = @ + 1, !.last_played = t]
    IN  [d EXCEPT !.song_stats  = Put(created, song_name, played),
                  !.total_plays = @ + 1]

\* the name of a request body that has no song_name
NoName == ""

ErrorNames == {NightDrive, NightRemix}

\* POST /api/recommend/record with a total_duration that is a JSON string:
\* 400 without a song_name; a skip never reads the durations and is recorded
\* and saved; any other event raises in record_play and the route answers 500
BadRecord ==
    /\ now <= MaxEvents
    /\ \E song_name \in ErrorNames \cup {NoName}, completed \in BOOLEAN,
          skipped \in BOOLEAN, hour \in HourSamples :
          IF song_name = NoName
          THEN /\ ret' = [ op |-> "record", status |-> 400, song_name |-> song_name,
                           completed |-> completed, skipped |-> skipped, at |-> now ]
               /\ UNCHANGED << data, file >>
          ELSE IF skipped
          THEN LET r == record_play(data, song_name, completed, 0, 0, TRUE, hour, now)
                   s == save_preferences(r.data, file, now, "written")
               IN  /\ data' = s.data
                   /\ file' = s.file
                   /\ ret' = [ op |-> "record", status |-> 200, song_name |-> song_name,
                               completed |-> completed, skipped |-> skipped, at |-> now ]
          ELSE /\ data' = record_play_raising(data, song_name, now)
               /\ file' = file
               /\ ret' = [ op |-> "record", status |-> 500, song_name |-> song_name,
                           completed |-> completed, skipped |-> skipped, at |-> now ]
    /\ now' = now + 1
    /\ UNCHANGED << memo, plan, conc, radio, sockets >>

GoodRecord == RecordPlayOf(ErrorNames, {Played, Skipped}, HourSamples, {"written"})

ErrorInit == Start(PriorFiles)

ErrorNext ==
    \/ BadRecord
    \/ GoodRecord

ErrorSpec == ErrorInit /\ [][ErrorNext]_vars

\* a record request without a song_name leaves the model as it was
UnnamedRecordKeeps ==
    [][ (ret'.op = "record" /\ ret'.status = 400) => data' = data ]_vars

\* C27 as stated: a record request that ends in an error leaves the model
\* in memory as it was before the request.
RecordAllOrNothing ==
    [][ (ret'.op = "record" /\ ret'.status # 200) => data' = data ]_vars

(***************************************************************************)
(* RadioSpec: the Socket.IO events of the live radio, one at a time        *)
(***************************************************************************)

\* the session ids of the clients; the host's browser connects from
\* 127.0.0.1, the others from other addresses
Sids == {"host", "ann", "bob"}

LocalSids == {"host"}

\* joins are followed up to this count
MaxListeners == Cardinality(Sids) + 1

\* 'connect': the radio state is sent to the client
Connect(sid) ==
    /\ sid \notin sockets.connected
    /\ sockets' = [sockets EXCEPT !.connected = @ \cup {sid}]
    /\ UNCHANGED << data, file, now, ret, memo, plan, conc, radio >>

\* 'disconnect': the host's ends the radio, another client's takes one off
\* listeners while the radio is live; the server takes the sid out of its rooms
Disconnect(sid) ==
    /\ sid \in sockets.connected
    /\ radio' = IF radio.host_sid = sid
                THEN RadioOff
                ELSE IF radio.is_live
                     THEN [radio EXCEPT !.listeners = Max(0, @ - 1)]
                     ELSE radio
    /\ sockets' = [sockets EXCEPT !.connected = @ \ {sid},
                                  !.room      = @ \ {sid},
                                  !.joined    = @ \ {sid}]
    /\ UNCHANGED << data, file, now, ret, memo, plan, conc >>

\* 'start_radio': refused unless sent from the host's address
StartRadio(sid) ==
    /\ sid \in sockets.connected
    /\ radio' = IF sid \notin LocalSids
                THEN radio
                ELSE [is_live |-> TRUE, host_sid |-> sid, listeners |-> 0]
    /\ UNCHANGED << data, file, now, ret, memo, plan, conc, sockets >>

\* 'stop_radio': refused unless sent by the host's session
StopRadio(sid) ==
    /\ sid \in sockets.connected
    /\ radio' = IF radio.host_sid # sid THEN radio ELSE RadioOff
    /\ UNCHANGED << data, file, now, ret, memo, plan, conc, sockets >>

\* 'join_radio': refused unless the radio is live
JoinRadio(sid) ==
    /\ sid \in sockets.connected
    /\ radio.listeners < MaxListeners
    /\ IF ~radio.is_live
       THEN UNCHANGED << radio, sockets >>
       ELSE /\ radio' = [radio EXCEPT !.listeners = @ + 1]
            /\ sockets' = [sockets EXCEPT !.room   = @ \cup {sid},
                                          !.joined = @ \cup {sid}]
    /\ UNCHANGED << data, file, now, ret, memo, plan, conc >>

\* 'leave_radio': does nothing unless the radio is live
LeaveRadio(sid) ==
    /\ sid \in sockets.connected
    /\ IF radio.is_live
       THEN /\ radio' = [radio EXCEPT !.listeners = Max(0, @ - 1)]
            /\ sockets' = [sockets EXCEPT !.room   = @ \ {sid},
                                          !.joined = @ \ {sid}]
       ELSE /\ radio' = radio
            /\ sockets' = [sockets EXCEPT !.joined = @ \ {sid}]
    /\ UNCHANGED << data, file, now, ret, memo, plan, conc >>

RadioInit == Start({AbsentFile})

RadioNext ==
    \E sid \in Sids :
        \/ Connect(sid)
        \/ Disconnect(sid)
        \/ StartRadio(sid)
        \/ StopRadio(sid)
        \/ JoinRadio(sid)
        \/ LeaveRadio(sid)

RadioSpec == RadioInit /\ [][RadioNext]_vars

\* listeners is never negative, and 0 whenever the radio is not live
ListenersReset ==
    /\ radio.listeners >= 0
    /\ ~radio.is_live => radio.listeners = 0

\* C30 as stated: listeners is never negative; while the radio is live it
\* is the number of connected clients that have joined and have neither
\* left nor disconnected; it is 0 whenever the radio is not live.
ListenerCount ==
    /\ radio.listeners >= 0
    /\ radio.is_live => radio.listeners = Cardinality(sockets.joined \cap sockets.connected)
    /\ ~radio.is_live => radio.listeners = 0

====
